---- MODULE Spec2Model ----
(***************************************************************************)
(* A model of aicommit (skrashevich/aicommit): the change extractor of     *)
(* git.go, the classifier of detect.go, the composer of render.go and the  *)
(* driver run of main.go.                                                  *)
(*                                                                         *)
(* A Go string is modelled as the sequence of its characters, each a       *)
(* one-character TLA+ string; a []byte stream split on NUL is modelled as  *)
(* the sequence of its fields.  Go's 0-based indices are kept: element k   *)
(* of a Go slice s is s[k+1] here.                                         *)
(***************************************************************************)
EXTENDS Integers, Sequences, FiniteSets, TLC

VARIABLES
    \* parseNameStatus / parseUntracked (git.go)
    fields,      \* bytes.Split(data, NUL)
    source,      \* the source Mode handed to parseNameStatus
    i,           \* the cursor of the parse loop (0-based)
    out,         \* the records appended so far
    hi,          \* the highest field index the last loop step read (-1: none)
    ppc,         \* where the parser is: "start", "loop", "done", "panic"
    \* one rename/copy record in its two physical shapes (parseNameStatus)
    rec,         \* the record: its status field, old path and new path
    before,      \* the fields of the records before it in the stream
    after,       \* the fields of the records after it in the stream
    shapeOut,    \* shapeOut[n]: what the stream with the record in shape n parsed to
    shapeDone,   \* the shapes parsed so far
    \* run (main.go)
    options,     \* opts, the Options run was called with, as run updates them
    pc,          \* where run is
    calls,       \* the functions run has called so far
    locals,      \* the local variables of run and of collectChanges
    stdout,      \* the lines written to os.Stdout
    err,         \* the error run returned
    \* one call of a function of git.go, detect.go or render.go
    fn,          \* the function called ("input": none yet)
    args,        \* the arguments of the call
    result       \* what the call returned

parseVars == <<fields, source, i, out, hi, ppc>>

shapeVars == <<rec, before, after, shapeOut, shapeDone>>

runVars == <<options, pc, calls, locals, stdout, err>>
callVars == <<fn, args, result>>

vars == <<parseVars, shapeVars, runVars, callVars>>

-----------------------------------------------------------------------------
(* Bounds of the model *)

\* the longest field sequence a parsed stream is split into
MaxFields == 3

\* the most records before, and the most after, a rename/copy record
MaxAround == 1

-----------------------------------------------------------------------------
(* Strings *)

TAB == "\t"

EmptyStr == << >>

Range(s) == {s[k] : k \in 1..Len(s)}

SeqsUpTo(S, n) == UNION {[1..k -> S] : k \in 0..n}

\* strings.Contains(s, sub)
Contains(s, sub) ==
    \E k \in 0..(Len(s) - Len(sub)) : SubSeq(s, k + 1, k + Len(sub)) = sub

\* strings.HasPrefix(s, p)
HasPrefix(s, p) == Len(s) >= Len(p) /\ SubSeq(s, 1, Len(p)) = p

\* strings.HasSuffix(s, p)
HasSuffix(s, p) == Len(s) >= Len(p) /\ SubSeq(s, Len(s) - Len(p) + 1, Len(s)) = p

\* strings.Index(s, sub): the 0-based index of the first occurrence, -1 if none
Index(s, sub) ==
    IF Contains(s, sub)
    THEN CHOOSE k \in 0..(Len(s) - Len(sub)) :
            /\ SubSeq(s, k + 1, k + Len(sub)) = sub
            /\ \A j \in 0..(k - 1) : SubSeq(s, j + 1, j + Len(sub)) # sub
    ELSE -1

\* strings.SplitN(s, sep, 2): one part when sep does not occur, else the text
\* before the first sep and everything after it
SplitN2(s, sep) ==
    LET k == Index(s, sep) IN
    IF k < 0 THEN <<s>>
    ELSE <<SubSeq(s, 1, k), SubSeq(s, k + Len(sep) + 1, Len(s))>>

\* unicode.IsSpace for the characters of the model
IsSpace(c) == c \in {" ", TAB, "\n", "\r"}

RECURSIVE TrimLeft(_)
TrimLeft(s) == IF s # << >> /\ IsSpace(Head(s)) THEN TrimLeft(Tail(s)) ELSE s

RECURSIVE TrimRight(_)
TrimRight(s) ==
    IF s # << >> /\ IsSpace(s[Len(s)]) THEN TrimRight(SubSeq(s, 1, Len(s) - 1)) ELSE s

\* strings.TrimSpace(s)
TrimSpace(s) == TrimRight(TrimLeft(s))

-----------------------------------------------------------------------------
(* types: Mode and Change *)

ModeAuto == "auto"
ModeStaged == "staged"
ModeUnstaged == "unstaged"
ModeAll == "all"

\* Change{Path, OldPath, Status, Source}; an omitted field is Go's zero value ""
Change(path, oldPath, status, src) ==
    [Path |-> path, OldPath |-> oldPath, Status |-> status, Source |-> src]

-----------------------------------------------------------------------------
(* parseNameStatus *)

\* status[:1] when status is not empty, else status
StatusChar(status) == IF Len(status) > 0 THEN SubSeq(status, 1, 1) ELSE status

IsRenameOrCopy(statusChar) == statusChar = <<"R">> \/ statusChar = <<"C">>

\* fields[k]; an index past the end is a run-time panic in Go, reported by
\* ParseStep through its panic field, and reads as the empty string here
FieldAt(fs, k) == IF k >= 0 /\ k < Len(fs) THEN fs[k + 1] ELSE EmptyStr

StepResult(stop, next, emit, read, fs) ==
    [stop |-> stop, next |-> next, emit |-> emit, read |-> read,
     panic |-> read >= Len(fs)]

\* TabEntryStep without the check i+1 >= len(fields) before the new path is read
TabEntryStepUnchecked(fs, k, src) ==
    LET parts == SplitN2(FieldAt(fs, k), <<TAB>>)
        statusChar == StatusChar(parts[1])
    IN
    IF IsRenameOrCopy(statusChar)
    THEN StepResult(FALSE, k + 2,
                    <<Change(FieldAt(fs, k + 1), parts[2], statusChar, src)>>,
                    k + 1, fs)
    ELSE StepResult(FALSE, k + 1, <<Change(parts[2], EmptyStr, statusChar, src)>>, k, fs)

\* TabEntryStep that keeps the whole status field, similarity number
\* included, where the code keeps its first letter
TabEntryStepKeepsSimilarity(fs, k, src) ==
    LET parts == SplitN2(FieldAt(fs, k), <<TAB>>)
        status == parts[1]
    IN
    IF IsRenameOrCopy(StatusChar(status))
    THEN IF k + 1 >= Len(fs)
         THEN StepResult(TRUE, k, << >>, k, fs)
         ELSE StepResult(FALSE, k + 2,
                         <<Change(FieldAt(fs, k + 1), parts[2], status, src)>>,
                         k + 1, fs)
    ELSE StepResult(FALSE, k + 1, <<Change(parts[2], EmptyStr, status, src)>>, k, fs)

\* the branch of the loop body taken for an entry that contains a TAB
TabEntryStep(fs, k, src) ==
    LET entry == FieldAt(fs, k)
        parts == SplitN2(entry, <<TAB>>)
    IN
    IF Len(parts) < 2 THEN StepResult(FALSE, k + 1, << >>, k, fs)
    ELSE
    LET statusChar == StatusChar(parts[1]) IN
    IF IsRenameOrCopy(statusChar)
    THEN IF k + 1 >= Len(fs)
         THEN StepResult(TRUE, k, << >>, k, fs)
         ELSE StepResult(FALSE, k + 2,
                         <<Change(FieldAt(fs, k + 1), parts[2], statusChar, src)>>,
                         k + 1, fs)
    ELSE StepResult(FALSE, k + 1, <<Change(parts[2], EmptyStr, statusChar, src)>>, k, fs)

\* BareEntryStep that skips a truncated record (i++; continue) where the code
\* breaks out of the loop
BareEntryStepSkipsTruncated(fs, k, src) ==
    LET statusChar == StatusChar(FieldAt(fs, k)) IN
    IF IsRenameOrCopy(statusChar)
    THEN IF k + 2 >= Len(fs)
         THEN StepResult(FALSE, k + 1, << >>, k, fs)
         ELSE LET oldPath == FieldAt(fs, k + 1)
                  newPath == FieldAt(fs, k + 2)
              IN StepResult(FALSE, k + 3,
                            IF oldPath # EmptyStr /\ newPath # EmptyStr
                            THEN <<Change(newPath, oldPath, statusChar, src)>>
                            ELSE << >>,
                            k + 2, fs)
    ELSE IF k + 1 >= Len(fs)
         THEN StepResult(FALSE, k + 1, << >>, k, fs)
         ELSE LET path == FieldAt(fs, k + 1) IN
              StepResult(FALSE, k + 2,
                         IF path # EmptyStr
                         THEN <<Change(path, EmptyStr, statusChar, src)>>
                         ELSE << >>,
                         k + 1, fs)

\* the branch of the loop body taken for an entry without a TAB
BareEntryStep(fs, k, src) ==
    LET statusChar == StatusChar(FieldAt(fs, k)) IN
    IF IsRenameOrCopy(statusChar)
    THEN IF k + 2 >= Len(fs)
         THEN StepResult(TRUE, k, << >>, k, fs)
         ELSE LET oldPath == FieldAt(fs, k + 1)
                  newPath == FieldAt(fs, k + 2)
              IN StepResult(FALSE, k + 3,
                            IF oldPath # EmptyStr /\ newPath # EmptyStr
                            THEN <<Change(newPath, oldPath, statusChar, src)>>
                            ELSE << >>,
                            k + 2, fs)
    ELSE IF k + 1 >= Len(fs)
         THEN StepResult(TRUE, k, << >>, k, fs)
         ELSE LET path == FieldAt(fs, k + 1) IN
              StepResult(FALSE, k + 2,
                         IF path # EmptyStr
                         THEN <<Change(path, EmptyStr, statusChar, src)>>
                         ELSE << >>,
                         k + 1, fs)

\* one pass through the body of the loop over fields, with the cursor at k:
\* whether it breaks, the cursor after it, the records it appends and the
\* highest index it reads
ParseStep(fs, k, src) ==
    LET entry == FieldAt(fs, k) IN
    IF entry = EmptyStr THEN StepResult(FALSE, k + 1, << >>, k, fs)
    ELSE IF Contains(entry, <<TAB>>) THEN TabEntryStep(fs, k, src)
    ELSE BareEntryStep(fs, k, src)

\* the loop of parseNameStatus run from cursor k with acc appended so far; a
\* step that panics or does not move the cursor ends the unfolding
RECURSIVE ParseFrom(_, _, _, _)
ParseFrom(fs, k, src, acc) ==
    IF k >= Len(fs) THEN acc
    ELSE LET r == ParseStep(fs, k, src) IN
         IF r.stop \/ r.panic \/ r.next <= k THEN acc \o r.emit
         ELSE ParseFrom(fs, r.next, src, acc \o r.emit)

\* parseNameStatus(data, source), data given as its NUL-separated fields
parseNameStatus(fs, src) ==
    IF fs = <<EmptyStr>> THEN << >> ELSE ParseFrom(fs, 0, src, << >>)

\* the loop of parseUntracked over the fields
RECURSIVE UntrackedFrom(_)
UntrackedFrom(fs) ==
    IF fs = << >> THEN << >>
    ELSE LET path == TrimSpace(Head(fs)) IN
         (IF path = EmptyStr THEN << >>
          ELSE <<Change(path, EmptyStr, <<"U">>, ModeUnstaged)>>)
         \o UntrackedFrom(Tail(fs))

\* parseUntracked(data), data given as its NUL-separated fields
parseUntracked(fs) == IF fs = <<EmptyStr>> THEN << >> ELSE UntrackedFrom(fs)

-----------------------------------------------------------------------------
(* The streams the parsers are run on *)

\* M, R without a similarity number, C with one
StatusStrs == {<<"M">>, <<"R">>, <<"C", "9">>}

PathStrs == {<<"a">>, <<"b">>}

\* a field of a stream: empty, a bare status, a bare path, status TAB path
\* with the path possibly empty, or TAB path with no status
FieldSet ==
    {EmptyStr} \cup StatusStrs \cup PathStrs
    \cup {s \o <<TAB>> \o p : s \in StatusStrs, p \in PathStrs \cup {EmptyStr}}
    \cup {<<TAB, "a">>}

\* bytes.Split never returns an empty slice
StreamSet == SeqsUpTo(FieldSet, MaxFields) \ {<< >>}

-----------------------------------------------------------------------------
(* The parser as a state machine: one action per return, loop step or exit *)

\* the variables of the two-shapes comparison while it is not running
\* run is not being executed
\* no single function call is being examined
CallIdle ==
    /\ fn = "idle"
    /\ args = << >>
    /\ result = << >>

RunIdle ==
    /\ options = << >>
    /\ pc = "idle"
    /\ calls = {}
    /\ locals = << >>
    /\ stdout = << >>
    /\ err = << >>

ShapeIdle ==
    /\ rec = [status |-> EmptyStr, oldPath |-> EmptyStr, newPath |-> EmptyStr]
    /\ before = << >>
    /\ after = << >>
    /\ shapeOut = <<<< >>, << >>>>
    /\ shapeDone = {}

ParseInit ==
    /\ ShapeIdle
    /\ RunIdle
    /\ CallIdle
    /\ fields \in StreamSet
    /\ source \in {ModeStaged, ModeUnstaged}
    /\ i = 0
    /\ out = << >>
    /\ hi = -1
    /\ ppc = "start"

\* if len(data) == 0 { return nil }
ParseEmptyData ==
    /\ ppc = "start"
    /\ fields = <<EmptyStr>>
    /\ ppc' = "done"
    /\ UNCHANGED <<fields, source, i, out, hi>>
    /\ UNCHANGED <<shapeVars, runVars, callVars>>

\* fields := bytes.Split(data, NUL); var out; i := 0
ParseSplit ==
    /\ ppc = "start"
    /\ fields # <<EmptyStr>>
    /\ ppc' = "loop"
    /\ i' = 0
    /\ out' = << >>
    /\ UNCHANGED <<fields, source, hi>>
    /\ UNCHANGED <<shapeVars, runVars, callVars>>

\* one pass through the loop body
ParseLoop ==
    /\ ppc = "loop"
    /\ i < Len(fields)
    /\ LET r == ParseStep(fields, i, source) IN
        /\ hi' = r.read
        /\ IF r.panic
           THEN ppc' = "panic" /\ UNCHANGED <<i, out>>
           ELSE /\ ppc' = IF r.stop THEN "done" ELSE "loop"
                /\ i' = r.next
                /\ out' = out \o r.emit
    /\ UNCHANGED <<fields, source>>
    /\ UNCHANGED <<shapeVars, runVars, callVars>>

\* the loop condition i < len(fields) fails: return out
ParseReturn ==
    /\ ppc = "loop"
    /\ i >= Len(fields)
    /\ ppc' = "done"
    /\ UNCHANGED <<fields, source, i, out, hi>>
    /\ UNCHANGED <<shapeVars, runVars, callVars>>

ParseNext == ParseEmptyData \/ ParseSplit \/ ParseLoop \/ ParseReturn

SpecParse == ParseInit /\ [][ParseNext]_vars

-----------------------------------------------------------------------------
(* One rename/copy record in both physical shapes *)

\* R and C, each without and with a similarity number
RenameStatusStrs == {<<"R">>, <<"R", "9">>, <<"C">>, <<"C", "9">>}

\* the records a stream may hold around the rename/copy record, each as its
\* fields: a modification in either shape, a copy and a rename in either
\* shape, and an empty field
AroundRecords ==
    { <<<<"M", TAB, "a">>>>, <<<<"M">>, <<"b">>>>,
      <<<<"C", "9", TAB, "a">>, <<"b">>>>, <<<<"R">>, <<"a">>, <<"b">>>>,
      <<EmptyStr>> }

RECURSIVE Flatten(_)
Flatten(ss) == IF ss = << >> THEN << >> ELSE Head(ss) \o Flatten(Tail(ss))

AroundSet == {Flatten(rs) : rs \in SeqsUpTo(AroundRecords, MaxAround)}

\* the record as the single field status TAB oldpath followed by newpath
Shape1(r) == <<r.status \o <<TAB>> \o r.oldPath, r.newPath>>

\* the record as the three fields status, oldpath, newpath
Shape2(r) == <<r.status, r.oldPath, r.newPath>>

ParseIdle ==
    /\ fields = << >>
    /\ i = 0
    /\ out = << >>
    /\ hi = -1
    /\ ppc = "idle"

ShapeInit ==
    /\ ParseIdle
    /\ RunIdle
    /\ CallIdle
    /\ source \in {ModeStaged, ModeUnstaged}
    /\ rec \in [status : RenameStatusStrs, oldPath : PathStrs, newPath : PathStrs]
    /\ before \in AroundSet
    /\ after \in AroundSet
    /\ shapeOut = <<<< >>, << >>>>
    /\ shapeDone = {}

\* parseNameStatus on the stream that holds the record in shape 1
ParseShape1 ==
    /\ 1 \notin shapeDone
    /\ shapeOut' = [shapeOut EXCEPT
                        ![1] = parseNameStatus(before \o Shape1(rec) \o after, source)]
    /\ shapeDone' = shapeDone \cup {1}
    /\ UNCHANGED <<rec, before, after>>
    /\ UNCHANGED <<parseVars, runVars, callVars>>

\* parseNameStatus on the stream that holds the record in shape 2
ParseShape2 ==
    /\ 2 \notin shapeDone
    /\ shapeOut' = [shapeOut EXCEPT
                        ![2] = parseNameStatus(before \o Shape2(rec) \o after, source)]
    /\ shapeDone' = shapeDone \cup {2}
    /\ UNCHANGED <<rec, before, after>>
    /\ UNCHANGED <<parseVars, runVars, callVars>>

ShapeNext == ParseShape1 \/ ParseShape2

SpecShape == ShapeInit /\ [][ShapeNext]_vars

-----------------------------------------------------------------------------
(* More of package strings, unicode and path/filepath.  A rune outside     *)
(* ASCII is one character here too: a Cyrillic letter is written as ~ and  *)
(* its transliteration ("~D" for the capital De, "~d" for the small one).  *)

NL == "\n"

\* the printable ASCII characters, in code order from 32 (space) to 126; the
\* grave accent (96), which a TLA+ string cannot hold, is written BACKTICK
AsciiChars ==
    <<" ", "!", "\"", "#", "$", "%", "&", "'", "(", ")", "*", "+", ",", "-",
      ".", "/", "0", "1", "2", "3", "4", "5", "6", "7", "8", "9", ":", ";",
      "<", "=", ">", "?", "@", "A", "B", "C", "D", "E", "F", "G", "H", "I",
      "J", "K", "L", "M", "N", "O", "P", "Q", "R", "S", "T", "U", "V", "W",
      "X", "Y", "Z", "[", "\\", "]", "^", "_", "BACKTICK", "a", "b", "c",
      "d", "e", "f", "g", "h", "i", "j", "k", "l", "m", "n", "o", "p", "q",
      "r", "s", "t", "u", "v", "w", "x", "y", "z", "{", "|", "}", "~">>

\* the capital and the small Cyrillic letters, in alphabet order
CyrUpper ==
    <<"~A", "~B", "~V", "~G", "~D", "~E", "~Yo", "~Zh", "~Z", "~I", "~J",
      "~K", "~L", "~M", "~N", "~O", "~P", "~R", "~S", "~T", "~U", "~F", "~H",
      "~C", "~Ch", "~Sh", "~Sch", "~Hd", "~Y", "~Sf", "~Eh", "~Yu", "~Ya">>

CyrLower ==
    <<"~a", "~b", "~v", "~g", "~d", "~e", "~yo", "~zh", "~z", "~i", "~j",
      "~k", "~l", "~m", "~n", "~o", "~p", "~r", "~s", "~t", "~u", "~f", "~h",
      "~c", "~ch", "~sh", "~sch", "~hd", "~y", "~sf", "~eh", "~yu", "~ya">>

AsciiIndex == [c \in Range(AsciiChars) |-> CHOOSE k \in 1..Len(AsciiChars) : AsciiChars[k] = c]

CyrUpperIndex == [c \in Range(CyrUpper) |-> CHOOSE k \in 1..Len(CyrUpper) : CyrUpper[k] = c]

\* the code of a character; at least 128 for a character outside ASCII
Ord(c) ==
    IF c = TAB THEN 9
    ELSE IF c = NL THEN 10
    ELSE IF c = "\r" THEN 13
    ELSE IF c \in DOMAIN AsciiIndex THEN 31 + AsciiIndex[c]
    ELSE 1024

IsUpper(c) == Ord(c) >= 65 /\ Ord(c) <= 90

IsLower(c) == Ord(c) >= 97 /\ Ord(c) <= 122

IsDigit(c) == Ord(c) >= 48 /\ Ord(c) <= 57

\* unicode.ToLower
ToLowerChar(c) ==
    IF IsUpper(c) THEN AsciiChars[Ord(c) + 32 - 31]
    ELSE IF c \in DOMAIN CyrUpperIndex THEN CyrLower[CyrUpperIndex[c]]
    ELSE c

\* strings.ToLower(s)
ToLower(s) == [k \in 1..Len(s) |-> ToLowerChar(s[k])]

\* strings.ReplaceAll(s, old, new) for one-character old and new
ReplaceAll(s, old, new) == [k \in 1..Len(s) |-> IF s[k] = old THEN new ELSE s[k]]

\* strings.Split(s, sep) for a one-character sep: always at least one part
RECURSIVE Split(_, _)
Split(s, sep) ==
    LET k == Index(s, <<sep>>) IN
    IF k < 0 THEN <<s>>
    ELSE <<SubSeq(s, 1, k)>> \o Split(SubSeq(s, k + 2, Len(s)), sep)

\* strings.Join(parts, sep)
RECURSIVE Join(_, _)
Join(parts, sep) ==
    IF parts = << >> THEN << >>
    ELSE IF Len(parts) = 1 THEN parts[1]
    ELSE parts[1] \o sep \o Join(Tail(parts), sep)

\* strings.TrimSuffix(s, suffix)
TrimSuffix(s, suffix) ==
    IF HasSuffix(s, suffix) THEN SubSeq(s, 1, Len(s) - Len(suffix)) ELSE s

\* s with its trailing slashes removed
RECURSIVE StripTrailingSlashes(_)
StripTrailingSlashes(s) ==
    IF s # << >> /\ s[Len(s)] = "/"
    THEN StripTrailingSlashes(SubSeq(s, 1, Len(s) - 1))
    ELSE s

\* the 1-based position of the last occurrence of character c in s, 0 if none
LastIndexOf(s, c) ==
    IF \E k \in 1..Len(s) : s[k] = c
    THEN CHOOSE k \in 1..Len(s) : s[k] = c /\ \A j \in (k + 1)..Len(s) : s[j] # c
    ELSE 0

\* filepath.Base(path)
Base(path) ==
    IF path = << >> THEN <<".">>
    ELSE LET p == StripTrailingSlashes(path) IN
         IF p = << >> THEN <<"/">>
         ELSE SubSeq(p, LastIndexOf(p, "/") + 1, Len(p))

\* filepath.Ext(path): from the last dot of the last path element, "" if none
Ext(path) ==
    LET slash == LastIndexOf(path, "/")
        dot == LastIndexOf(path, ".")
    IN IF dot > slash THEN SubSeq(path, dot, Len(path)) ELSE << >>

\* a < b for Go strings (byte-wise lexicographic order)
RECURSIVE StrLess(_, _)
StrLess(a, b) ==
    IF b = << >> THEN FALSE
    ELSE IF a = << >> THEN TRUE
    ELSE IF Ord(Head(a)) # Ord(Head(b)) THEN Ord(Head(a)) < Ord(Head(b))
    ELSE StrLess(Tail(a), Tail(b))

\* strconv.Itoa / fmt's %d for n >= 0
RECURSIVE Itoa(_)
Itoa(n) ==
    IF n < 10 THEN <<AsciiChars[n + 48 - 31]>>
    ELSE Itoa(n \div 10) \o <<AsciiChars[(n % 10) + 48 - 31]>>

-----------------------------------------------------------------------------
(* detect.go: path categories *)

catDocs == <<"d", "o", "c", "s">>
catTest == <<"t", "e", "s", "t">>
catCI == <<"c", "i">>
catBuild == <<"b", "u", "i", "l", "d">>
catChore == <<"c", "h", "o", "r", "e">>
catCode == <<"c", "o", "d", "e">>

\* the basenames categorizePath takes for build files
BuildBaseNames ==
    { <<"m", "a", "k", "e", "f", "i", "l", "e">>, <<"d", "o", "c", "k", "e", "r", "f", "i", "l", "e">>, <<"g", "o", ".", "m", "o", "d">>, <<"g", "o", ".", "s", "u", "m">>, <<"p", "a", "c", "k", "a", "g", "e", ".", "j", "s", "o", "n">>,
      <<"p", "a", "c", "k", "a", "g", "e", "-", "l", "o", "c", "k", ".", "j", "s", "o", "n">>, <<"p", "n", "p", "m", "-", "l", "o", "c", "k", ".", "y", "a", "m", "l">>, <<"y", "a", "r", "n", ".", "l", "o", "c", "k">>, <<"c", "a", "r", "g", "o", ".", "t", "o", "m", "l">>,
      <<"c", "a", "r", "g", "o", ".", "l", "o", "c", "k">>, <<"p", "o", "m", ".", "x", "m", "l">>, <<"b", "u", "i", "l", "d", ".", "g", "r", "a", "d", "l", "e">>, <<"b", "u", "i", "l", "d", ".", "g", "r", "a", "d", "l", "e", ".", "k", "t", "s">>,
      <<"s", "e", "t", "t", "i", "n", "g", "s", ".", "g", "r", "a", "d", "l", "e">>, <<"s", "e", "t", "t", "i", "n", "g", "s", ".", "g", "r", "a", "d", "l", "e", ".", "k", "t", "s">>, <<"g", "r", "a", "d", "l", "e", ".", "p", "r", "o", "p", "e", "r", "t", "i", "e", "s">>,
      <<"c", "m", "a", "k", "e", "l", "i", "s", "t", "s", ".", "t", "x", "t">> }

\* the basenames categorizePath takes for chore files
ChoreBaseNames ==
    { <<".", "g", "i", "t", "i", "g", "n", "o", "r", "e">>, <<".", "g", "i", "t", "a", "t", "t", "r", "i", "b", "u", "t", "e", "s">>, <<".", "e", "d", "i", "t", "o", "r", "c", "o", "n", "f", "i", "g">>, <<"t", "s", "c", "o", "n", "f", "i", "g", ".", "j", "s", "o", "n">>,
      <<"e", "s", "l", "i", "n", "t", ".", "c", "o", "n", "f", "i", "g", ".", "j", "s">>, <<".", "p", "r", "e", "-", "c", "o", "m", "m", "i", "t", "-", "c", "o", "n", "f", "i", "g", ".", "y", "a", "m", "l">>, <<"r", "u", "f", "f", ".", "t", "o", "m", "l">> }

categorizePath(path) ==
    LET lower == ToLower(path)
        base == ToLower(Base(path))
        ext == ToLower(Ext(path))
    IN
    IF \/ lower = <<"r", "e", "a", "d", "m", "e">>
       \/ HasPrefix(lower, <<"r", "e", "a", "d", "m", "e", ".">>)
       \/ HasPrefix(lower, <<"c", "h", "a", "n", "g", "e", "l", "o", "g">>)
       \/ HasPrefix(lower, <<"l", "i", "c", "e", "n", "s", "e">>)
       \/ HasPrefix(lower, <<"c", "o", "n", "t", "r", "i", "b", "u", "t", "i", "n", "g">>)
    THEN catDocs
    ELSE IF HasPrefix(lower, <<"d", "o", "c", "s", "/">>) \/ ext = <<".", "m", "d">> \/ ext = <<".", "r", "s", "t">> \/ ext = <<".", "a", "d", "o", "c">>
    THEN catDocs
    ELSE IF \/ Contains(lower, <<"/", "t", "e", "s", "t", "/">>)
            \/ Contains(lower, <<"/", "t", "e", "s", "t", "s", "/">>)
            \/ HasSuffix(base, <<"_", "t", "e", "s", "t", ".", "g", "o">>)
            \/ Contains(base, <<".", "s", "p", "e", "c", ".">>)
            \/ Contains(base, <<".", "t", "e", "s", "t", ".">>)
    THEN catTest
    ELSE IF \/ HasPrefix(lower, <<".", "g", "i", "t", "h", "u", "b", "/", "w", "o", "r", "k", "f", "l", "o", "w", "s", "/">>)
            \/ HasPrefix(lower, <<".", "g", "i", "t", "h", "u", "b", "/", "a", "c", "t", "i", "o", "n", "s", "/">>)
            \/ HasPrefix(lower, <<".", "c", "i", "r", "c", "l", "e", "c", "i", "/">>)
            \/ HasPrefix(lower, <<".", "g", "i", "t", "l", "a", "b", "-", "c", "i">>)
            \/ base = <<"j", "e", "n", "k", "i", "n", "s", "f", "i", "l", "e">>
            \/ base = <<"a", "z", "u", "r", "e", "-", "p", "i", "p", "e", "l", "i", "n", "e", "s", ".", "y", "m", "l">>
            \/ base = <<"a", "p", "p", "v", "e", "y", "o", "r", ".", "y", "m", "l">>
    THEN catCI
    ELSE IF base \in BuildBaseNames
    THEN catBuild
    ELSE IF \/ HasPrefix(lower, <<"b", "u", "i", "l", "d", "/">>)
            \/ HasPrefix(lower, <<"d", "o", "c", "k", "e", "r", "/">>)
            \/ HasPrefix(lower, <<"v", "e", "n", "d", "o", "r", "/">>)
            \/ HasPrefix(lower, <<"t", "h", "i", "r", "d", "_", "p", "a", "r", "t", "y", "/">>)
    THEN catBuild
    ELSE IF \/ HasPrefix(lower, <<"s", "c", "r", "i", "p", "t", "s", "/">>)
            \/ HasPrefix(lower, <<"t", "o", "o", "l", "s", "/">>)
            \/ HasPrefix(lower, <<"c", "o", "n", "f", "i", "g", "/">>)
            \/ HasPrefix(lower, <<".", "v", "s", "c", "o", "d", "e", "/">>)
    THEN catChore
    ELSE IF \/ base \in ChoreBaseNames
            \/ HasPrefix(base, <<".", "p", "r", "e", "t", "t", "i", "e", "r", "r", "c">>)
            \/ HasPrefix(base, <<".", "e", "s", "l", "i", "n", "t", "r", "c">>)
    THEN catChore
    ELSE catCode

\* counts[cat] after the loop of detectType over changes
CategoryCount(changes, cat) ==
    Cardinality({k \in 1..Len(changes) : categorizePath(changes[k].Path) = cat})

\* the loop of dominantNonCode over order, with best and bestCount so far
RECURSIVE DominantFrom(_, _, _, _)
DominantFrom(changes, order, best, bestCount) ==
    IF order = << >> THEN <<best, bestCount>>
    ELSE LET count == CategoryCount(changes, Head(order)) IN
         IF count > bestCount
         THEN DominantFrom(changes, Tail(order), Head(order), count)
         ELSE DominantFrom(changes, Tail(order), best, bestCount)

\* dominantNonCode(counts), counts being the category counts of changes
dominantNonCode(changes) ==
    LET r == DominantFrom(changes, <<catDocs, catTest, catCI, catBuild, catChore>>,
                          catChore, -1)
    IN IF r[2] <= 0 THEN <<"c", "h", "o", "r", "e">> ELSE r[1]

-----------------------------------------------------------------------------
(* detect.go: the diff scans *)

\* isDiffHeader that does not know the "+++" and "---" lines
isDiffHeaderHunksOnly(line) ==
    \/ HasPrefix(line, <<"@", "@">>)
    \/ HasPrefix(line, <<"d", "i", "f", "f", " ">>)
    \/ HasPrefix(line, <<"i", "n", "d", "e", "x", " ">>)

isDiffHeader(line) ==
    \/ HasPrefix(line, <<"+", "+", "+">>)
    \/ HasPrefix(line, <<"-", "-", "-">>)
    \/ HasPrefix(line, <<"@", "@">>)
    \/ HasPrefix(line, <<"d", "i", "f", "f", " ">>)
    \/ HasPrefix(line, <<"i", "n", "d", "e", "x", " ">>)

\* diffHasKeyword(diff, keywords), keywords given as a set of strings
diffHasKeyword(diff, keywords) ==
    IF diff = << >> THEN FALSE
    ELSE LET lines == Split(diff, NL) IN
         \E n \in 1..Len(lines) :
            LET line == lines[n] IN
            /\ line # << >>
            /\ ~isDiffHeader(line)
            /\ line[1] \in {"+", "-"}
            /\ \E kw \in keywords :
                 Contains(ToLower(TrimSpace(Tail(line))), ToLower(kw))

\* \s of Go's regexp syntax
IsReSpace(c) == c \in {" ", TAB, NL, "\r", "\f"}

\* [A-Za-z0-9_]
IsWordChar(c) == IsUpper(c) \/ IsLower(c) \/ IsDigit(c) \/ c = "_"

\* Positions are 1-based: position p stands before s[p]; 0 is "no match".

\* the position after the literal lit matched at p
AfterLit(s, p, lit) ==
    IF p > 0 /\ p + Len(lit) - 1 <= Len(s) /\ SubSeq(s, p, p + Len(lit) - 1) = lit
    THEN p + Len(lit)
    ELSE 0

\* the character classes of the three patterns: \s, [A-Za-z0-9_] and [^)]
InClass(c, class) ==
    IF class = "space" THEN IsReSpace(c)
    ELSE IF class = "word" THEN IsWordChar(c)
    ELSE c # ")"

\* the position after the longest run of characters of the class from p
RECURSIVE RunEnd(_, _, _)
RunEnd(s, p, class) ==
    IF p <= Len(s) /\ InClass(s[p], class) THEN RunEnd(s, p + 1, class) ELSE p

\* the position after \s+ matched at p
AfterSpaces(s, p) ==
    IF p > 0 /\ p <= Len(s) /\ IsReSpace(s[p]) THEN RunEnd(s, p, "space") ELSE 0

\* the text ([A-Z][A-Za-z0-9_]*) matches at p, "" when it does not match
IdentAt(s, p) ==
    IF p > 0 /\ p <= Len(s) /\ IsUpper(s[p])
    THEN SubSeq(s, p, RunEnd(s, p + 1, "word") - 1)
    ELSE << >>

\* the position after one of the keywords and \s+ matched at p
AfterKeyword(s, p, keywords) ==
    IF \E kw \in keywords : AfterSpaces(s, AfterLit(s, p, kw)) > 0
    THEN LET kw == CHOOSE w \in keywords : AfterSpaces(s, AfterLit(s, p, w)) > 0
         IN AfterSpaces(s, AfterLit(s, p, kw))
    ELSE 0

\* the position after (?:\([^)]+\)\s+) matched at p
AfterReceiver(s, p) ==
    IF p > 0 /\ p <= Len(s) /\ s[p] = "("
    THEN LET close == RunEnd(s, p + 1, "notclose") IN
         IF close <= Len(s) /\ close >= p + 2 THEN AfterSpaces(s, close + 1) ELSE 0
    ELSE 0

\* group 2 of goExportedRe on content, "" when it does not match:
\* ^(func\s+(?:\([^)]+\)\s+)?|type\s+|var\s+|const\s+)([A-Z][A-Za-z0-9_]*)
goExported(content) ==
    LET f == AfterSpaces(content, AfterLit(content, 1, <<"f", "u", "n", "c">>)) IN
    IF f > 0
    THEN LET r == AfterReceiver(content, f) IN
         IF IdentAt(content, r) # << >> THEN IdentAt(content, r)
         ELSE IdentAt(content, f)
    ELSE IdentAt(content, AfterKeyword(content, 1, {<<"t", "y", "p", "e">>, <<"v", "a", "r">>, <<"c", "o", "n", "s", "t">>}))

\* group 1 of jsExportedRe on content, "" when it does not match:
\* ^export\s+(?:default\s+)?(?:function|class|const|let|var|interface|type)\s+([A-Z][A-Za-z0-9_]*)
jsExported(content) ==
    LET e == AfterSpaces(content, AfterLit(content, 1, <<"e", "x", "p", "o", "r", "t">>))
        d == AfterSpaces(content, AfterLit(content, e, <<"d", "e", "f", "a", "u", "l", "t">>))
        kws == {<<"f", "u", "n", "c", "t", "i", "o", "n">>, <<"c", "l", "a", "s", "s">>, <<"c", "o", "n", "s", "t">>, <<"l", "e", "t">>, <<"v", "a", "r">>, <<"i", "n", "t", "e", "r", "f", "a", "c", "e">>, <<"t", "y", "p", "e">>}
        viaDefault == IdentAt(content, AfterKeyword(content, d, kws))
    IN IF viaDefault # << >> THEN viaDefault
       ELSE IdentAt(content, AfterKeyword(content, e, kws))

\* group 1 of rustExportedRe on content, "" when it does not match:
\* ^(?:pub\s+)?(?:fn|struct|enum|trait)\s+([A-Z][A-Za-z0-9_]*)
rustExported(content) ==
    LET p == AfterSpaces(content, AfterLit(content, 1, <<"p", "u", "b">>))
        kws == {<<"f", "n">>, <<"s", "t", "r", "u", "c", "t">>, <<"e", "n", "u", "m">>, <<"t", "r", "a", "i", "t">>}
        viaPub == IdentAt(content, AfterKeyword(content, p, kws))
    IN IF viaPub # << >> THEN viaPub
       ELSE IdentAt(content, AfterKeyword(content, 1, kws))

\* the name findExportedNames adds to its set for a line, "" when none
ExportedNameOf(line, prefix) ==
    IF line = << >> \/ line[1] # prefix \/ isDiffHeader(line) THEN << >>
    ELSE LET content == TrimSpace(Tail(line)) IN
         IF goExported(content) # << >> THEN goExported(content)
         ELSE IF jsExported(content) # << >> THEN jsExported(content)
         ELSE rustExported(content)

\* sort.Strings on the elements of a set
RECURSIVE SortStrings(_)
SortStrings(S) ==
    IF S = {} THEN << >>
    ELSE LET m == CHOOSE x \in S : \A y \in S \ {x} : StrLess(x, y) IN
         <<m>> \o SortStrings(S \ {m})

\* findExportedNames(diff, prefix)
findExportedNames(diff, prefix) ==
    IF diff = << >> THEN << >>
    ELSE LET lines == Split(diff, NL) IN
         SortStrings({ExportedNameOf(lines[n], prefix) : n \in 1..Len(lines)} \ {<< >>})

-----------------------------------------------------------------------------
(* detect.go: scope and area of a path *)

topLevel(path) ==
    LET parts == Split(path, "/") IN
    IF Len(parts) = 0 THEN << >>
    ELSE IF Len(parts) = 1 THEN << >>
    ELSE parts[1]

scopeFromPath(path) ==
    IF topLevel(path) # << >> THEN topLevel(path)
    ELSE LET base == Base(path) IN
         IF base = << >> \/ base = <<".">> THEN << >>
         ELSE TrimSuffix(base, Ext(base))

\* the first path segments primaryArea keeps the second segment of
ContainerDirs == {<<"c", "m", "d">>, <<"p", "k", "g">>, <<"i", "n", "t", "e", "r", "n", "a", "l">>, <<"s", "r", "c">>, <<"l", "i", "b">>, <<"a", "p", "p">>}

primaryArea(path) ==
    LET parts == Split(path, "/") IN
    IF Len(parts) = 0 THEN << >>
    ELSE IF Len(parts) = 1 THEN TrimSuffix(parts[1], Ext(parts[1]))
    ELSE IF parts[1] \in ContainerDirs /\ Len(parts) >= 2
    THEN parts[1] \o <<"/">> \o parts[2]
    ELSE parts[1]

\* the characters sanitizeScope keeps
IsScopeChar(c) == IsLower(c) \/ IsDigit(c) \/ c = "-" \/ c = "_" \/ c = "/"

sanitizeScope(scope) ==
    SelectSeq(ReplaceAll(ToLower(TrimSpace(scope)), " ", "-"), IsScopeChar)

-----------------------------------------------------------------------------
(* detect.go: detectType, detectBreaking, detectScope *)

\* some change path contains, lower-cased, one of the words
PathHint(changes, words) ==
    \E k \in 1..Len(changes) : \E w \in words : Contains(ToLower(changes[k].Path), w)

hasNewCodeFile(changes) ==
    \E k \in 1..Len(changes) :
        /\ categorizePath(changes[k].Path) = catCode
        /\ changes[k].Status \in {<<"A">>, <<"U">>, <<"C">>}

\* detectType that looks for the refactor hints before the performance hints
detectTypeRefactorFirst(changes, diff, opts) ==
    IF opts.Type # << >>
    THEN [type |-> ToLower(opts.Type), reasons |-> <<"type override">>]
    ELSE IF CategoryCount(changes, catCode) = 0
    THEN [type |-> dominantNonCode(changes), reasons |-> <<"only non-code files">>]
    ELSE IF \/ PathHint(changes, {<<"r", "e", "f", "a", "c", "t", "o", "r">>, <<"c", "l", "e", "a", "n", "u", "p">>})
            \/ diffHasKeyword(diff, {<<"r", "e", "f", "a", "c", "t", "o", "r">>, <<"c", "l", "e", "a", "n", "u", "p">>, <<"r", "e", "s", "t", "r", "u", "c", "t", "u", "r", "e">>})
    THEN [type |-> <<"r", "e", "f", "a", "c", "t", "o", "r">>, reasons |-> <<"refactor hints">>]
    ELSE IF \/ PathHint(changes, {<<"p", "e", "r", "f">>, <<"o", "p", "t", "i", "m", "i", "z">>})
            \/ diffHasKeyword(diff, {<<"p", "e", "r", "f">>, <<"o", "p", "t", "i", "m", "i", "z">>, <<"s", "p", "e", "e", "d">>})
    THEN [type |-> <<"p", "e", "r", "f">>, reasons |-> <<"performance hints">>]
    ELSE IF \/ PathHint(changes, {<<"l", "i", "n", "t">>, <<"f", "o", "r", "m", "a", "t">>, <<"s", "t", "y", "l", "e">>})
            \/ diffHasKeyword(diff, {<<"f", "o", "r", "m", "a", "t">>, <<"l", "i", "n", "t">>, <<"s", "t", "y", "l", "e">>})
    THEN [type |-> <<"s", "t", "y", "l", "e">>, reasons |-> <<"style hints">>]
    ELSE IF hasNewCodeFile(changes) \/ Len(findExportedNames(diff, "+")) > 0
    THEN [type |-> <<"f", "e", "a", "t">>, reasons |-> <<"new code or exported symbols">>]
    ELSE [type |-> <<"f", "i", "x">>, reasons |-> <<"defaulted to fix">>]

\* detectType(changes, diff, opts): the type and the reasons
detectType(changes, diff, opts) ==
    IF opts.Type # << >>
    THEN [type |-> ToLower(opts.Type), reasons |-> <<"type override">>]
    ELSE IF CategoryCount(changes, catCode) = 0
    THEN [type |-> dominantNonCode(changes), reasons |-> <<"only non-code files">>]
    ELSE IF \/ PathHint(changes, {<<"p", "e", "r", "f">>, <<"o", "p", "t", "i", "m", "i", "z">>})
            \/ diffHasKeyword(diff, {<<"p", "e", "r", "f">>, <<"o", "p", "t", "i", "m", "i", "z">>, <<"s", "p", "e", "e", "d">>})
    THEN [type |-> <<"p", "e", "r", "f">>, reasons |-> <<"performance hints">>]
    ELSE IF \/ PathHint(changes, {<<"r", "e", "f", "a", "c", "t", "o", "r">>, <<"c", "l", "e", "a", "n", "u", "p">>})
            \/ diffHasKeyword(diff, {<<"r", "e", "f", "a", "c", "t", "o", "r">>, <<"c", "l", "e", "a", "n", "u", "p">>, <<"r", "e", "s", "t", "r", "u", "c", "t", "u", "r", "e">>})
    THEN [type |-> <<"r", "e", "f", "a", "c", "t", "o", "r">>, reasons |-> <<"refactor hints">>]
    ELSE IF \/ PathHint(changes, {<<"l", "i", "n", "t">>, <<"f", "o", "r", "m", "a", "t">>, <<"s", "t", "y", "l", "e">>})
            \/ diffHasKeyword(diff, {<<"f", "o", "r", "m", "a", "t">>, <<"l", "i", "n", "t">>, <<"s", "t", "y", "l", "e">>})
    THEN [type |-> <<"s", "t", "y", "l", "e">>, reasons |-> <<"style hints">>]
    ELSE IF hasNewCodeFile(changes) \/ Len(findExportedNames(diff, "+")) > 0
    THEN [type |-> <<"f", "e", "a", "t">>, reasons |-> <<"new code or exported symbols">>]
    ELSE [type |-> <<"f", "i", "x">>, reasons |-> <<"defaulted to fix">>]

\* detectBreaking(changes, diff, opts): the verdict and the note
detectBreaking(changes, diff, opts) ==
    IF opts.Breaking THEN [breaking |-> TRUE, note |-> << >>]
    ELSE IF diffHasKeyword(diff, {<<"b", "r", "e", "a", "k", "i", "n", "g", " ", "c", "h", "a", "n", "g", "e">>, <<"b", "r", "e", "a", "k", "i", "n", "g", "-", "c", "h", "a", "n", "g", "e">>})
    THEN [breaking |-> TRUE, note |-> << >>]
    ELSE LET removed == findExportedNames(diff, "-") IN
         IF Len(removed) > 0
         THEN [breaking |-> TRUE,
               note |-> <<"r", "e", "m", "o", "v", "e", "d", " ", "e", "x", "p", "o", "r", "t", "e", "d", " ", "s", "y", "m", "b", "o", "l", "s", ":", " ">> \o Join(removed, <<",", " ">>)]
         ELSE [breaking |-> FALSE, note |-> << >>]

\* ScopeLoop that does not compare the later records with the first
RECURSIVE ScopeLoopKeepsFirst(_, _, _)
ScopeLoopKeepsFirst(changes, k, scope) ==
    IF k > Len(changes) THEN sanitizeScope(scope)
    ELSE LET candidate == topLevel(changes[k].Path) IN
         IF candidate = << >> THEN << >>
         ELSE IF k = 1 THEN ScopeLoopKeepsFirst(changes, k + 1, candidate)
         ELSE ScopeLoopKeepsFirst(changes, k + 1, scope)

\* the loop of detectScope over changes from index k (1-based) with the scope
\* of the first record
RECURSIVE ScopeLoop(_, _, _)
ScopeLoop(changes, k, scope) ==
    IF k > Len(changes) THEN sanitizeScope(scope)
    ELSE LET candidate == topLevel(changes[k].Path) IN
         IF candidate = << >> THEN << >>
         ELSE IF k = 1 THEN ScopeLoop(changes, k + 1, candidate)
         ELSE IF scope # candidate THEN << >>
         ELSE ScopeLoop(changes, k + 1, scope)

\* detectScope(changes, override)
detectScope(changes, override) ==
    IF TrimSpace(override) # << >> THEN sanitizeScope(override)
    ELSE IF Len(changes) = 0 THEN << >>
    ELSE IF Len(changes) = 1 THEN sanitizeScope(scopeFromPath(changes[1].Path))
    ELSE ScopeLoop(changes, 1, << >>)

-----------------------------------------------------------------------------
(* types: Format, BodyMode; render.go: the option checks *)

FormatConventional == "conventional"
FormatPlain == "plain"
FormatGitmoji == "gitmoji"

BodyAuto == "auto"
BodyNone == "none"
BodyFiles == "files"
BodyStats == "stats"
BodySummary == "summary"

validFormat(format) == format \in {FormatConventional, FormatPlain, FormatGitmoji}

validBody(body) == body \in {BodyAuto, BodyNone, BodyFiles, BodyStats, BodySummary}

validMode(mode) == mode \in {ModeAuto, ModeStaged, ModeUnstaged, ModeAll}

\* the language one environment variable selects, "" when it is not set
LangOfEnv(val) ==
    LET v == ToLower(TrimSpace(val)) IN
    IF v = << >> THEN ""
    ELSE IF HasPrefix(v, <<"r", "u">>) \/ Contains(v, <<"_", "r", "u">>) THEN "ru"
    ELSE "en"

\* detectLang(), given the values of LC_ALL and LANG
detectLang(lcAll, lang) ==
    IF LangOfEnv(lcAll) # "" THEN LangOfEnv(lcAll)
    ELSE IF LangOfEnv(lang) # "" THEN LangOfEnv(lang)
    ELSE "en"

-----------------------------------------------------------------------------
(* render.go: the subject *)

\* verbForType(commitType, lang): <<verb, default target>>
verbForType(commitType, lang) ==
    LET ct == ToLower(commitType) IN
    IF lang = "ru"
    THEN CASE ct = <<"f", "e", "a", "t">> -> <<<<"~D", "~o", "~b", "~a", "~v", "~sf">>, <<"~f", "~u", "~n", "~k", "~c", "~i", "~o", "~n", "~a", "~l", "~sf", "~n", "~o", "~s", "~t", "~sf">>>>
           [] ct = <<"f", "i", "x">> -> <<<<"~I", "~s", "~p", "~r", "~a", "~v", "~sf">>, <<"~o", "~sh", "~i", "~b", "~k", "~i">>>>
           [] ct = <<"d", "o", "c", "s">> -> <<<<"~O", "~b", "~n", "~o", "~v", "~i">>, <<"~d", "~o", "~k", "~u", "~m", "~e", "~n", "~t", "~a", "~c", "~i", "~yu">>>>
           [] ct = <<"t", "e", "s", "t">> -> <<<<"~D", "~o", "~b", "~a", "~v", "~sf">>, <<"~t", "~e", "~s", "~t", "~y">>>>
           [] ct = <<"r", "e", "f", "a", "c", "t", "o", "r">> -> <<<<"~U", "~l", "~u", "~ch", "~sh", "~i">>, <<"~s", "~t", "~r", "~u", "~k", "~t", "~u", "~r", "~u", " ", "~k", "~o", "~d", "~a">>>>
           [] ct = <<"p", "e", "r", "f">> -> <<<<"~O", "~p", "~t", "~i", "~m", "~i", "~z", "~i", "~r", "~u", "~j">>, <<"~p", "~r", "~o", "~i", "~z", "~v", "~o", "~d", "~i", "~t", "~e", "~l", "~sf", "~n", "~o", "~s", "~t", "~sf">>>>
           [] ct = <<"s", "t", "y", "l", "e">> -> <<<<"~P", "~r", "~i", "~v", "~e", "~d", "~i">>, <<"~s", "~t", "~i", "~l", "~sf">>>>
           [] ct = <<"b", "u", "i", "l", "d">> -> <<<<"~O", "~b", "~n", "~o", "~v", "~i">>, <<"~s", "~b", "~o", "~r", "~k", "~u">>>>
           [] ct = <<"c", "i">> -> <<<<"~O", "~b", "~n", "~o", "~v", "~i">>, <<"C", "I">>>>
           [] ct = <<"c", "h", "o", "r", "e">> -> <<<<"~O", "~b", "~n", "~o", "~v", "~i">>, <<"~i", "~n", "~s", "~t", "~r", "~u", "~m", "~e", "~n", "~t", "~y">>>>
           [] OTHER -> <<<<"~O", "~b", "~n", "~o", "~v", "~i">>, <<"~i", "~z", "~m", "~e", "~n", "~e", "~n", "~i", "~ya">>>>
    ELSE CASE ct = <<"f", "e", "a", "t">> -> <<<<"A", "d", "d">>, <<"f", "e", "a", "t", "u", "r", "e">>>>
           [] ct = <<"f", "i", "x">> -> <<<<"F", "i", "x">>, <<"b", "u", "g">>>>
           [] ct = <<"d", "o", "c", "s">> -> <<<<"U", "p", "d", "a", "t", "e">>, <<"d", "o", "c", "s">>>>
           [] ct = <<"t", "e", "s", "t">> -> <<<<"A", "d", "d">>, <<"t", "e", "s", "t", "s">>>>
           [] ct = <<"r", "e", "f", "a", "c", "t", "o", "r">> -> <<<<"R", "e", "f", "a", "c", "t", "o", "r">>, <<"c", "o", "d", "e">>>>
           [] ct = <<"p", "e", "r", "f">> -> <<<<"O", "p", "t", "i", "m", "i", "z", "e">>, <<"p", "e", "r", "f", "o", "r", "m", "a", "n", "c", "e">>>>
           [] ct = <<"s", "t", "y", "l", "e">> -> <<<<"F", "o", "r", "m", "a", "t">>, <<"c", "o", "d", "e">>>>
           [] ct = <<"b", "u", "i", "l", "d">> -> <<<<"U", "p", "d", "a", "t", "e">>, <<"b", "u", "i", "l", "d">>>>
           [] ct = <<"c", "i">> -> <<<<"U", "p", "d", "a", "t", "e">>, <<"C", "I">>>>
           [] ct = <<"c", "h", "o", "r", "e">> -> <<<<"U", "p", "d", "a", "t", "e">>, <<"t", "o", "o", "l", "i", "n", "g">>>>
           [] OTHER -> <<<<"U", "p", "d", "a", "t", "e">>, <<"c", "h", "a", "n", "g", "e", "s">>>>

\* the keys of the counts map of inferTarget: the non-empty primary areas
AreaKeys(changes) ==
    {primaryArea(changes[k].Path) : k \in 1..Len(changes)} \ {<< >>}

\* counts[area] of inferTarget
AreaCount(changes, area) ==
    Cardinality({k \in 1..Len(changes) : primaryArea(changes[k].Path) = area})

\* the loop of inferTarget over the counts map, visited in the given order,
\* with best, bestCount and tie so far
RECURSIVE TargetLoop(_, _, _, _, _)
TargetLoop(changes, order, best, bestCount, tie) ==
    IF order = << >> THEN IF tie THEN << >> ELSE best
    ELSE LET count == AreaCount(changes, Head(order)) IN
         IF count > bestCount
         THEN TargetLoop(changes, Tail(order), Head(order), count, FALSE)
         ELSE TargetLoop(changes, Tail(order), best, bestCount,
                         tie \/ count = bestCount)

\* inferTarget(changes, scope); order is the order in which range visits the
\* keys of the counts map, which Go leaves unspecified
inferTarget(changes, scope, order) ==
    IF Len(changes) = 1 THEN primaryArea(changes[1].Path)
    ELSE IF scope # << >> THEN scope
    ELSE IF AreaKeys(changes) = {} THEN << >>
    ELSE TargetLoop(changes, order, << >>, 0, FALSE)

\* buildSubject(commitType, scope, changes, opts)
buildSubject(commitType, scope, changes, opts, order) ==
    LET vt == verbForType(commitType, opts.Lang)
        inferred == inferTarget(changes, scope, order)
        target1 == IF inferred = << >> THEN vt[2] ELSE inferred
        target == IF target1 = << >>
                  THEN IF opts.Lang = "ru" THEN <<"~i", "~z", "~m", "~e", "~n", "~e", "~n", "~i", "~ya">> ELSE <<"c", "h", "a", "n", "g", "e", "s">>
                  ELSE target1
    IN TrimSpace(vt[1] \o <<" ">> \o target)

-----------------------------------------------------------------------------
(* render.go: the body *)

statusLabel(status, lang) ==
    IF lang = "ru"
    THEN CASE status = <<"A">> -> <<"~d", "~o", "~b", "~a", "~v", "~l">>
           [] status = <<"M">> -> <<"~i", "~z", "~m">>
           [] status = <<"D">> -> <<"~u", "~d", "~a", "~l">>
           [] status = <<"R">> -> <<"~p", "~e", "~r", "~e", "~i", "~m">>
           [] status = <<"C">> -> <<"~k", "~o", "~p">>
           [] status = <<"U">> -> <<"~n", "~o", "~v">>
           [] OTHER -> <<"~i", "~z", "~m">>
    ELSE CASE status = <<"A">> -> <<"a", "d", "d">>
           [] status = <<"M">> -> <<"m", "o", "d">>
           [] status = <<"D">> -> <<"d", "e", "l">>
           [] status = <<"R">> -> <<"r", "e", "n">>
           [] status = <<"C">> -> <<"c", "p", "y">>
           [] status = <<"U">> -> <<"n", "e", "w">>
           [] OTHER -> <<"m", "o", "d">>

\* s with x inserted before the first element whose Path is greater than x's
RECURSIVE InsertByPath(_, _)
InsertByPath(s, x) ==
    IF s = << >> THEN <<x>>
    ELSE IF StrLess(x.Path, Head(s).Path) THEN <<x>> \o s
    ELSE <<Head(s)>> \o InsertByPath(Tail(s), x)

\* sort.Slice(s, less by Path): for the short slices of the model Go sorts by
\* insertion, which keeps elements of equal Path in their order
RECURSIVE SortByPath(_)
SortByPath(s) ==
    IF s = << >> THEN << >>
    ELSE InsertByPath(SortByPath(SubSeq(s, 1, Len(s) - 1)), s[Len(s)])

\* the line "- and N more" of a truncated list
MoreLine(remaining, lang) ==
    IF lang = "ru" THEN <<"-", " ", "~i", " ", "~e", "~sch", "~e", " ">> \o Itoa(remaining)
    ELSE <<"-", " ", "a", "n", "d", " ">> \o Itoa(remaining) \o <<" ", "m", "o", "r", "e">>

\* the line buildFileLines renders for one change
FileLine(ch, lang) ==
    LET path == IF ch.Status = <<"R">> /\ ch.OldPath # << >>
                THEN ch.OldPath \o <<" ", "-", ">", " ">> \o ch.Path
                ELSE ch.Path
    IN <<"-", " ">> \o statusLabel(ch.Status, lang) \o <<" ">> \o path

\* the number of entries a list of n renders under the cap maxItems
Limit(n, maxItems) == IF maxItems > 0 /\ n > maxItems THEN maxItems ELSE n

\* the sorted list without sort.Slice: the changes in the order given
FileLinesUnsorted(changes, maxItems, lang) ==
    LET limit == Limit(Len(changes), maxItems) IN
    [k \in 1..limit |-> FileLine(changes[k], lang)]
    \o (IF limit < Len(changes) THEN <<MoreLine(Len(changes) - limit, lang)>> ELSE << >>)

buildFileLines(changes, maxItems, lang) ==
    LET sorted == SortByPath(changes)
        limit == Limit(Len(sorted), maxItems)
    IN [k \in 1..limit |-> FileLine(sorted[k], lang)]
       \o (IF limit < Len(sorted) THEN <<MoreLine(Len(sorted) - limit, lang)>> ELSE << >>)

\* the line buildStatLines renders for one FileStat
StatLine(st) ==
    IF st.Binary THEN <<"-", " ">> \o st.Path \o <<" ", "(", "b", "i", "n", "a", "r", "y", ")">>
    ELSE <<"-", " ">> \o st.Path \o <<" ", "(", "+">> \o Itoa(st.Added) \o <<" ", "-">> \o Itoa(st.Deleted) \o <<")">>

buildStatLines(stats, maxItems, lang) ==
    LET sorted == SortByPath(stats)
        limit == Limit(Len(sorted), maxItems)
    IN [k \in 1..limit |-> StatLine(sorted[k])]
       \o (IF limit < Len(sorted) THEN <<MoreLine(Len(sorted) - limit, lang)>> ELSE << >>)

\* counts[status] of summaryLine
StatusCount(changes, status) ==
    Cardinality({k \in 1..Len(changes) : changes[k].Status = status})

summaryLine(changes, lang) ==
    LET added == StatusCount(changes, <<"A">>) + StatusCount(changes, <<"U">>)
        modified == StatusCount(changes, <<"M">>)
        deleted == StatusCount(changes, <<"D">>)
        total == Len(changes)
    IN IF lang = "ru"
       THEN <<"~F", "~a", "~j", "~l", "~o", "~v", " ", "~i", "~z", "~m", "~e", "~n", "~e", "~n", "~o", ":", " ">> \o Itoa(total) \o <<" ", "(", "~d", "~o", "~b", "~a", "~v", "~l", "~e", "~n", "~o", " ">> \o Itoa(added)
            \o <<",", " ", "~u", "~d", "~a", "~l", "~e", "~n", "~o", " ">> \o Itoa(deleted) \o <<",", " ", "~i", "~z", "~m", "~e", "~n", "~e", "~n", "~o", " ">> \o Itoa(modified) \o <<")">>
       ELSE <<"F", "i", "l", "e", "s", " ", "c", "h", "a", "n", "g", "e", "d", ":", " ">> \o Itoa(total) \o <<" ", "(", "a", "d", "d", "e", "d", " ">> \o Itoa(added)
            \o <<",", " ", "r", "e", "m", "o", "v", "e", "d", " ">> \o Itoa(deleted) \o <<",", " ", "m", "o", "d", "i", "f", "i", "e", "d", " ">> \o Itoa(modified) \o <<")">>

breakingFooter(note, lang) ==
    <<"B", "R", "E", "A", "K", "I", "N", "G", " ", "C", "H", "A", "N", "G", "E", ":", " ">>
    \o (IF note # << >> THEN note
        ELSE IF lang = "ru" THEN <<"~n", "~e", "~s", "~o", "~v", "~m", "~e", "~s", "~t", "~i", "~m", "~y", "~e", " ", "~i", "~z", "~m", "~e", "~n", "~e", "~n", "~i", "~ya", " ", "A", "P", "I">>
        ELSE <<"i", "n", "c", "o", "m", "p", "a", "t", "i", "b", "l", "e", " ", "A", "P", "I", " ", "c", "h", "a", "n", "g", "e", "s">>)

\* the body mode buildBody renders: auto resolved by the number of changes
ResolvedBody(changes, opts) ==
    IF opts.Body # BodyAuto THEN opts.Body
    ELSE IF Len(changes) = 0 THEN BodyNone
    ELSE IF Len(changes) <= opts.MaxItems THEN BodyFiles
    ELSE BodySummary

\* the footers of buildBody
Footers(opts, breaking, breakingNote) ==
    (IF breaking THEN <<breakingFooter(breakingNote, opts.Lang)>> ELSE << >>)
    \o (IF Len(opts.Refs) > 0 THEN <<<<"R", "e", "f", "s", ":", " ">> \o Join(opts.Refs, <<",", " ">>)>> ELSE << >>)
    \o (IF Len(opts.Closes) > 0 THEN <<<<"C", "l", "o", "s", "e", "s", ":", " ">> \o Join(opts.Closes, <<",", " ">>)>> ELSE << >>)

\* buildBody(changes, mode, opts, breaking, breakingNote); stats is what
\* collectNumstat(mode) returns, read in stats mode only
buildBody(changes, stats, opts, breaking, breakingNote) ==
    LET bodyMode == ResolvedBody(changes, opts)
        content ==
            IF bodyMode = BodyFiles THEN buildFileLines(changes, opts.MaxItems, opts.Lang)
            ELSE IF bodyMode = BodyStats
            THEN IF Len(stats) = 0 THEN <<summaryLine(changes, opts.Lang)>>
                 ELSE buildStatLines(stats, opts.MaxItems, opts.Lang)
            ELSE IF bodyMode = BodySummary THEN <<summaryLine(changes, opts.Lang)>>
            ELSE << >>
        footers == Footers(opts, breaking, breakingNote)
        lines == IF Len(footers) > 0
                 THEN (IF Len(content) > 0 THEN content \o <<<< >>>> ELSE content) \o footers
                 ELSE content
    IN Join(lines, <<NL>>)

-----------------------------------------------------------------------------
(* render.go: the final message *)

emojiCode(commitType) ==
    LET ct == ToLower(commitType) IN
    CASE ct = <<"f", "e", "a", "t">> -> <<":", "s", "p", "a", "r", "k", "l", "e", "s", ":">>
      [] ct = <<"f", "i", "x">> -> <<":", "b", "u", "g", ":">>
      [] ct = <<"d", "o", "c", "s">> -> <<":", "m", "e", "m", "o", ":">>
      [] ct = <<"s", "t", "y", "l", "e">> -> <<":", "a", "r", "t", ":">>
      [] ct = <<"r", "e", "f", "a", "c", "t", "o", "r">> -> <<":", "r", "e", "c", "y", "c", "l", "e", ":">>
      [] ct = <<"p", "e", "r", "f">> -> <<":", "z", "a", "p", ":">>
      [] ct = <<"t", "e", "s", "t">> -> <<":", "w", "h", "i", "t", "e", "_", "c", "h", "e", "c", "k", "_", "m", "a", "r", "k", ":">>
      [] ct = <<"b", "u", "i", "l", "d">> -> <<":", "p", "a", "c", "k", "a", "g", "e", ":">>
      [] ct = <<"c", "i">> -> <<":", "c", "o", "n", "s", "t", "r", "u", "c", "t", "i", "o", "n", "_", "w", "o", "r", "k", "e", "r", ":">>
      [] ct = <<"c", "h", "o", "r", "e">> -> <<":", "w", "r", "e", "n", "c", "h", ":">>
      [] OTHER -> << >>

\* lowerFirst(s); the strings of the model are valid UTF-8, so the first rune
\* is never utf8.RuneError
lowerFirst(s) == IF s = << >> THEN s ELSE <<ToLowerChar(s[1])>> \o Tail(s)

\* the 0-based index of the last space among the first max runes, max if none
LastSpaceCut(runes, max) ==
    IF \E k \in 0..(max - 1) : runes[k + 1] = " "
    THEN CHOOSE k \in 0..(max - 1) :
            runes[k + 1] = " " /\ \A j \in (k + 1)..(max - 1) : runes[j + 1] # " "
    ELSE max

\* trimSubject that cuts at the last space wherever it is
trimSubjectCutsAtAnySpace(s, max) ==
    IF max <= 0 THEN s
    ELSE IF Len(s) <= max THEN s
    ELSE TrimSpace(SubSeq(s, 1, LastSpaceCut(s, max)))

trimSubject(s, max) ==
    IF max <= 0 THEN s
    ELSE IF Len(s) <= max THEN s
    ELSE LET found == LastSpaceCut(s, max)
             cut == IF found < 3 THEN max ELSE found
         IN TrimSpace(SubSeq(s, 1, cut))

\* formatMessage without the "!" of a breaking change
formatMessageUnmarked(commitType, scope, subject, body, opts, breaking) ==
    LET prefixed == opts.Format = FormatConventional \/ opts.Format = FormatGitmoji
        subj == trimSubject(IF prefixed THEN lowerFirst(subject) ELSE subject,
                            opts.MaxSubject)
        prefix1 == IF prefixed
                   THEN ToLower(commitType)
                        \o (IF scope # << >> THEN <<"(">> \o scope \o <<")">> ELSE << >>)
                        \o <<":", " ">>
                   ELSE << >>
        code == emojiCode(commitType)
        prefix == IF (opts.Emoji \/ opts.Format = FormatGitmoji) /\ code # << >>
                  THEN code \o <<" ">> \o prefix1
                  ELSE prefix1
    IN prefix \o subj \o (IF body # << >> THEN <<NL, NL>> \o body ELSE << >>)

formatMessage(commitType, scope, subject, body, opts, breaking) ==
    LET prefixed == opts.Format = FormatConventional \/ opts.Format = FormatGitmoji
        subj == trimSubject(IF prefixed THEN lowerFirst(subject) ELSE subject,
                            opts.MaxSubject)
        prefix1 == IF prefixed
                   THEN ToLower(commitType)
                        \o (IF scope # << >> THEN <<"(">> \o scope \o <<")">> ELSE << >>)
                        \o (IF breaking THEN <<"!">> ELSE << >>)
                        \o <<":", " ">>
                   ELSE << >>
        code == emojiCode(commitType)
        prefix == IF (opts.Emoji \/ opts.Format = FormatGitmoji) /\ code # << >>
                  THEN code \o <<" ">> \o prefix1
                  ELSE prefix1
    IN prefix \o subj \o (IF body # << >> THEN <<NL, NL>> \o body ELSE << >>)

-----------------------------------------------------------------------------
(* git.go: selectChanges and mergeChanges *)

\* m[k] = v on a Go map modelled as a function
Put(m, k, v) == [x \in (DOMAIN m) \cup {k} |-> IF x = k THEN v ELSE m[x]]

\* the empty map
EmptyMap == [x \in {} |-> x]

\* the orders in which range may visit a map with the key set S
RECURSIVE Perms(_)
Perms(S) ==
    IF S = {} THEN {<< >>}
    ELSE UNION {{<<x>> \o p : p \in Perms(S \ {x})} : x \in S}

\* MergeStaged that stores the staged records with the origin ModeAll
RECURSIVE MergeStagedAsMerged(_, _)
MergeStagedAsMerged(byPath, staged) ==
    IF staged = << >> THEN byPath
    ELSE MergeStagedAsMerged(
            Put(byPath, Head(staged).Path, [Head(staged) EXCEPT !.Source = ModeAll]),
            Tail(staged))

\* the first loop of mergeChanges: byPath[ch.Path] = ch for the staged records
RECURSIVE MergeStaged(_, _)
MergeStaged(byPath, staged) ==
    IF staged = << >> THEN byPath
    ELSE MergeStaged(Put(byPath, Head(staged).Path, Head(staged)), Tail(staged))

\* MergeUnstaged without the branch for a path the map does not hold yet
RECURSIVE MergeUnstagedSkipsNew(_, _)
MergeUnstagedSkipsNew(byPath, unstaged) ==
    IF unstaged = << >> THEN byPath
    ELSE LET ch == Head(unstaged) IN
         IF ch.Path \in DOMAIN byPath
         THEN MergeUnstagedSkipsNew(
                Put(byPath, ch.Path, [byPath[ch.Path] EXCEPT !.Source = ModeAll]),
                Tail(unstaged))
         ELSE MergeUnstagedSkipsNew(byPath, Tail(unstaged))

\* MergeUnstaged in which the unstaged record replaces the staged one
RECURSIVE MergeUnstagedWins(_, _)
MergeUnstagedWins(byPath, unstaged) ==
    IF unstaged = << >> THEN byPath
    ELSE MergeUnstagedWins(
            Put(byPath, Head(unstaged).Path, [Head(unstaged) EXCEPT !.Source = ModeAll]),
            Tail(unstaged))

\* the second loop of mergeChanges, over the unstaged records
RECURSIVE MergeUnstaged(_, _)
MergeUnstaged(byPath, unstaged) ==
    IF unstaged = << >> THEN byPath
    ELSE LET ch == Head(unstaged) IN
         IF ch.Path \in DOMAIN byPath
         THEN MergeUnstaged(
                Put(byPath, ch.Path, [byPath[ch.Path] EXCEPT !.Source = ModeAll]),
                Tail(unstaged))
         ELSE MergeUnstaged(Put(byPath, ch.Path, [ch EXCEPT !.Source = ModeAll]),
                            Tail(unstaged))

\* the map byPath of mergeChanges after both loops
MergedByPath(staged, unstaged) ==
    MergeUnstaged(MergeStaged(EmptyMap, staged), unstaged)

\* the third loop of mergeChanges: the values of the map in the order range
\* visits its keys
ValuesInOrder(m, order) == [k \in 1..Len(order) |-> m[order[k]]]

\* mergeChanges(staged, unstaged), with the order of the map iteration
mergeChanges(staged, unstaged, order) ==
    ValuesInOrder(MergedByPath(staged, unstaged), order)

\* the orders mergeChanges may return its records in
MergeOrders(staged, unstaged) == Perms(DOMAIN MergedByPath(staged, unstaged))

\* selectChanges in which auto merges when both sequences have records
selectChangesAutoMerges(mode, staged, unstaged, order) ==
    IF mode = ModeStaged THEN <<ModeStaged, staged>>
    ELSE IF mode = ModeUnstaged THEN <<ModeUnstaged, unstaged>>
    ELSE IF mode = ModeAll \/ (Len(staged) > 0 /\ Len(unstaged) > 0)
    THEN <<ModeAll, mergeChanges(staged, unstaged, order)>>
    ELSE IF Len(staged) > 0 THEN <<ModeStaged, staged>>
    ELSE <<ModeUnstaged, unstaged>>

\* selectChanges(mode, staged, unstaged): <<mode used, changes>>
selectChanges(mode, staged, unstaged, order) ==
    IF mode = ModeStaged THEN <<ModeStaged, staged>>
    ELSE IF mode = ModeUnstaged THEN <<ModeUnstaged, unstaged>>
    ELSE IF mode = ModeAll THEN <<ModeAll, mergeChanges(staged, unstaged, order)>>
    ELSE IF Len(staged) > 0 THEN <<ModeStaged, staged>>
    ELSE <<ModeUnstaged, unstaged>>

-----------------------------------------------------------------------------
(* git.go: collectDiff, collectNumstat, parseNumstat *)

\* collectDiff(mode), given what gitOutput returns for "diff --cached -U0" and
\* for "diff -U0" ("" when the command fails)
collectDiff(mode, diffStaged, diffUnstaged) ==
    IF mode = ModeStaged THEN diffStaged
    ELSE IF mode = ModeUnstaged THEN diffUnstaged
    ELSE IF mode = ModeAll
    THEN IF diffUnstaged = << >> THEN diffStaged
         ELSE IF diffStaged = << >> THEN diffUnstaged
         ELSE diffUnstaged \o <<NL>> \o diffStaged
    ELSE << >>

\* strings.SplitN(s, sep, 3) for a one-character sep
SplitN3(s, sep) ==
    LET first == SplitN2(s, <<sep>>) IN
    IF Len(first) < 2 THEN first ELSE <<first[1]>> \o SplitN2(first[2], <<sep>>)

AllDigits(s) == s # << >> /\ \A k \in 1..Len(s) : IsDigit(s[k])

\* the value of a string of digits
RECURSIVE DigitsValue(_)
DigitsValue(s) ==
    IF s = << >> THEN 0
    ELSE 10 * DigitsValue(SubSeq(s, 1, Len(s) - 1)) + (Ord(s[Len(s)]) - 48)

\* strconv.Atoi(raw) returns no error: an optional sign and digits
AtoiOk(raw) ==
    IF raw # << >> /\ Head(raw) \in {"+", "-"} THEN AllDigits(Tail(raw)) ELSE AllDigits(raw)

\* the value strconv.Atoi(raw) returns when it returns no error
AtoiValue(raw) ==
    IF Head(raw) = "-" THEN 0 - DigitsValue(Tail(raw))
    ELSE IF Head(raw) = "+" THEN DigitsValue(Tail(raw))
    ELSE DigitsValue(raw)

\* FileStat{Path, Added, Deleted, Binary}
FileStat(path, added, deleted, binary) ==
    [Path |-> path, Added |-> added, Deleted |-> deleted, Binary |-> binary]

\* the records the loop of parseNumstat appends for one line
NumstatLine(rawLine) ==
    LET line == TrimSpace(rawLine)
        parts == SplitN3(line, TAB)
    IN IF line = << >> THEN << >>
       ELSE IF Len(parts) < 3 THEN << >>
       ELSE IF parts[1] = <<"-">> /\ parts[2] = <<"-">>
       THEN <<FileStat(parts[3], 0, 0, TRUE)>>
       ELSE IF ~AtoiOk(parts[1]) \/ ~AtoiOk(parts[2]) THEN << >>
       ELSE <<FileStat(parts[3], AtoiValue(parts[1]), AtoiValue(parts[2]), FALSE)>>

\* the loop of parseNumstat over the lines
RECURSIVE NumstatLines(_)
NumstatLines(lines) ==
    IF lines = << >> THEN << >>
    ELSE NumstatLine(Head(lines)) \o NumstatLines(Tail(lines))

parseNumstat(raw) ==
    IF TrimSpace(raw) = << >> THEN << >> ELSE NumstatLines(Split(raw, NL))

\* AppendLoop in which a path already in the map keeps its record as it is
RECURSIVE AppendLoopKeepsExisting(_, _)
AppendLoopKeepsExisting(byPath, stats) ==
    IF stats = << >> THEN byPath
    ELSE LET st == Head(stats) IN
         IF st.Path \notin DOMAIN byPath
         THEN AppendLoopKeepsExisting(Put(byPath, st.Path, st), Tail(stats))
         ELSE AppendLoopKeepsExisting(byPath, Tail(stats))

\* the loop of appendStats over stats, on the map byPath
RECURSIVE AppendLoop(_, _)
AppendLoop(byPath, stats) ==
    IF stats = << >> THEN byPath
    ELSE LET st == Head(stats) IN
         IF st.Path \notin DOMAIN byPath
         THEN AppendLoop(Put(byPath, st.Path, st), Tail(stats))
         ELSE LET existing == byPath[st.Path] IN
              AppendLoop(Put(byPath, st.Path,
                             FileStat(st.Path, existing.Added + st.Added,
                                      existing.Deleted + st.Deleted,
                                      existing.Binary \/ st.Binary)),
                         Tail(stats))

\* the map byPath of appendStats after both of its loops
AppendedByPath(combined, stats) ==
    LET last(p) == CHOOSE k \in 1..Len(combined) :
                       /\ combined[k].Path = p
                       /\ \A j \in (k + 1)..Len(combined) : combined[j].Path # p
        byPath == [p \in {combined[k].Path : k \in 1..Len(combined)} |-> combined[last(p)]]
    IN AppendLoop(byPath, stats)

\* appendStats(stats) on combined, with the order of the map iteration
appendStats(combined, stats, order) ==
    IF Len(stats) = 0 THEN combined
    ELSE ValuesInOrder(AppendedByPath(combined, stats), order)

\* the orders the map iteration of appendStats may take
AppendOrders(combined, stats) ==
    IF Len(stats) = 0 THEN {<< >>} ELSE Perms(DOMAIN AppendedByPath(combined, stats))

\* collectNumstat(mode), given what gitOutput returns for "diff --cached
\* --numstat" and for "diff --numstat" ("" when the command fails) and the
\* orders of the two map iterations
collectNumstat(mode, rawStaged, rawUnstaged, order1, order2) ==
    IF mode = ModeStaged THEN parseNumstat(rawStaged)
    ELSE IF mode = ModeUnstaged THEN parseNumstat(rawUnstaged)
    ELSE IF mode = ModeAll
    THEN appendStats(appendStats(<< >>, parseNumstat(rawUnstaged), order1),
                     parseNumstat(rawStaged), order2)
    ELSE << >>

-----------------------------------------------------------------------------
(* main.go: run *)

\* a nil error
Nil == [kind |-> "nil", arg |-> ""]

\* an error value: the text of its message and the value formatted into it
Error(kind, arg) == [kind |-> kind, arg |-> arg]

\* the local variables of run and collectChanges before they are assigned
ZeroLocals ==
    [stagedRaw |-> << >>, unstagedRaw |-> << >>, untrackedRaw |-> << >>,
     staged |-> << >>, unstaged |-> << >>,
     modeUsed |-> "", changes |-> << >>, diff |-> << >>,
     commitType |-> << >>, reasons |-> << >>, scope |-> << >>,
     breaking |-> FALSE, breakingNote |-> << >>,
     subject |-> << >>, body |-> << >>, message |-> << >>,
     rangeOrder |-> << >>, llmFailed |-> FALSE, llmUsed |-> FALSE]

\* the Options fields run and the stages it calls read
\* (parseFlags sets MaxItems and MaxSubject to 8 and 72 unless a flag or the
\* environment says otherwise)
Options(mode, format, lang, body, maxItems, llm, strict, copy, explain) ==
    [Mode |-> mode, Format |-> format, Lang |-> lang, Type |-> << >>,
     Scope |-> << >>, Breaking |-> FALSE, Body |-> body, MaxItems |-> maxItems,
     MaxSubject |-> 72, Refs |-> << >>, Closes |-> << >>, Emoji |-> FALSE,
     Explain |-> explain, Copy |-> copy,
     LLMEnabled |-> llm, LLMMaxDiff |-> 0, LLMStrict |-> strict]

\* the functions that collect or parse input
Collectors ==
    {"collectChanges", "parseNameStatus", "parseUntracked", "collectDiff",
     "collectNumstat", "parseNumstat"}

\* the functions that classify the changes and compose the message
Composers ==
    {"detectType", "detectScope", "detectBreaking", "buildSubject", "buildBody",
     "formatMessage"}

\* the stream git writes with -z for a sequence of records, each given as its fields
StreamOf(recs) == Flatten(recs) \o <<EmptyStr>>

\* run returns e
Return(e) == pc' = "returned" /\ err' = e

\* ensureGit() and its error check
RunEnsureGit ==
    /\ pc = "ensureGit"
    /\ calls' = calls \cup {"ensureGit"}
    /\ \E found \in BOOLEAN :
         IF found THEN pc' = "defaults" /\ UNCHANGED err
         ELSE Return(Error("git is not available in PATH", ""))
    /\ UNCHANGED <<options, locals, stdout>>
    /\ UNCHANGED <<parseVars, shapeVars, callVars>>

\* the defaults of run and the language detection, given the values LC_ALL
\* and LANG may have
RunDefaults(Env) ==
    /\ pc = "defaults"
    /\ \E lcAll \in Env, lang \in Env :
         LET detect == options.Lang = "auto" \/ options.Lang = "" IN
         /\ options' =
              [options EXCEPT
                 !.MaxItems = IF @ <= 0 THEN 8 ELSE @,
                 !.MaxSubject = IF @ <= 0 THEN 72 ELSE @,
                 !.Mode = IF @ = "" THEN ModeAuto ELSE @,
                 !.LLMMaxDiff = IF options.LLMEnabled /\ @ <= 0 THEN 20000 ELSE @,
                 !.Lang = IF detect THEN detectLang(lcAll, lang) ELSE @]
         /\ calls' = IF detect THEN calls \cup {"detectLang"} ELSE calls
    /\ pc' = "validate"
    /\ UNCHANGED <<locals, stdout, err>>
    /\ UNCHANGED <<parseVars, shapeVars, callVars>>

\* RunValidate without the check of the mode
RunValidateSkipsMode ==
    /\ pc = "validate"
    /\ IF options.Lang # "en" /\ options.Lang # "ru"
       THEN Return(Error("unsupported lang", options.Lang))
       ELSE IF ~validFormat(options.Format)
       THEN Return(Error("unsupported format", options.Format))
       ELSE IF ~validBody(options.Body)
       THEN Return(Error("unsupported body mode", options.Body))
       ELSE pc' = "revParse" /\ UNCHANGED err
    /\ UNCHANGED <<options, calls, locals, stdout>>
    /\ UNCHANGED <<parseVars, shapeVars, callVars>>

\* the checks of the language, the format, the body mode and the mode
RunValidate ==
    /\ pc = "validate"
    /\ IF options.Lang # "en" /\ options.Lang # "ru"
       THEN Return(Error("unsupported lang", options.Lang))
       ELSE IF ~validFormat(options.Format)
       THEN Return(Error("unsupported format", options.Format))
       ELSE IF ~validBody(options.Body)
       THEN Return(Error("unsupported body mode", options.Body))
       ELSE IF ~validMode(options.Mode)
       THEN Return(Error("unsupported mode", options.Mode))
       ELSE pc' = "revParse" /\ UNCHANGED err
    /\ UNCHANGED <<options, calls, locals, stdout>>
    /\ UNCHANGED <<parseVars, shapeVars, callVars>>

\* gitOutput("rev-parse", "--show-toplevel") and its error check
RunRevParse ==
    /\ pc = "revParse"
    /\ calls' = calls \cup {"gitOutput rev-parse"}
    /\ \E inRepo \in BOOLEAN :
         IF inRepo THEN pc' = "collectChanges" /\ UNCHANGED err
         ELSE Return(Error("not a git repository", ""))
    /\ UNCHANGED <<options, locals, stdout>>
    /\ UNCHANGED <<parseVars, shapeVars, callVars>>

\* collectChanges() and its error check, given the streams the three git
\* commands may write
RunCollectChanges(Staged, Unstaged, Untracked) ==
    /\ pc = "collectChanges"
    /\ \E gitFails \in BOOLEAN :
         IF gitFails
         THEN /\ calls' = calls \cup {"collectChanges"}
              /\ Return(Error("exit status 128", ""))
              /\ UNCHANGED locals
         ELSE \E stagedRaw \in Staged, unstagedRaw \in Unstaged,
                 untrackedRaw \in Untracked :
                /\ calls' = calls \cup {"collectChanges", "parseNameStatus",
                                        "parseUntracked"}
                /\ locals' =
                     [locals EXCEPT
                        !.stagedRaw = stagedRaw,
                        !.unstagedRaw = unstagedRaw,
                        !.untrackedRaw = untrackedRaw,
                        !.staged = parseNameStatus(stagedRaw, ModeStaged),
                        !.unstaged = parseNameStatus(unstagedRaw, ModeUnstaged)
                                     \o parseUntracked(untrackedRaw)]
                /\ pc' = "selectChanges"
                /\ UNCHANGED err
    /\ UNCHANGED <<options, stdout>>
    /\ UNCHANGED <<parseVars, shapeVars, callVars>>

\* RunSelectChanges without the check for an empty selection
RunSelectChangesKeepsEmpty ==
    /\ pc = "selectChanges"
    /\ calls' = calls \cup {"selectChanges"}
    /\ \E order \in IF options.Mode = ModeAll
                    THEN MergeOrders(locals.staged, locals.unstaged)
                    ELSE {<< >>} :
         \E sel \in {selectChanges(options.Mode, locals.staged, locals.unstaged,
                                     order)} :
            /\ locals' = [locals EXCEPT !.modeUsed = sel[1], !.changes = sel[2]]
            /\ pc' = "collectDiff" /\ UNCHANGED err
    /\ UNCHANGED <<options, stdout>>
    /\ UNCHANGED <<parseVars, shapeVars, callVars>>

\* selectChanges(opts.Mode, staged, unstaged) and the check for an empty
\* selection
RunSelectChanges ==
    /\ pc = "selectChanges"
    /\ calls' = calls \cup {"selectChanges"}
    /\ \E order \in IF options.Mode = ModeAll
                    THEN MergeOrders(locals.staged, locals.unstaged)
                    ELSE {<< >>} :
         \E sel \in {selectChanges(options.Mode, locals.staged, locals.unstaged,
                                     order)} :
            /\ locals' = [locals EXCEPT !.modeUsed = sel[1], !.changes = sel[2]]
            /\ IF Len(sel[2]) = 0
               THEN Return(Error("no changes found for mode", sel[1]))
               ELSE pc' = "collectDiff" /\ UNCHANGED err
    /\ UNCHANGED <<options, stdout>>
    /\ UNCHANGED <<parseVars, shapeVars, callVars>>

\* collectDiff(modeUsed), given the texts the two git commands may write
RunCollectDiff(Diffs) ==
    /\ pc = "collectDiff"
    /\ calls' = calls \cup {"collectDiff"}
    /\ \E diffStaged \in Diffs, diffUnstaged \in Diffs :
         locals' = [locals EXCEPT
                      !.diff = collectDiff(locals.modeUsed, diffStaged, diffUnstaged)]
    /\ pc' = "compose"
    /\ UNCHANGED <<options, stdout, err>>
    /\ UNCHANGED <<parseVars, shapeVars, callVars>>

\* the body mode BodyStats is what makes buildBody call collectNumstat
NeedsNumstat == ResolvedBody(locals.changes, options) = BodyStats

\* formatMessage applied to the subject and the body run builds
FinalMessage(commitType, scope, breaking, breakingNote, changes, stats, opts, areaOrder) ==
    formatMessage(commitType, scope,
                  buildSubject(commitType, scope, changes, opts, areaOrder),
                  buildBody(changes, stats, opts, breaking, breakingNote),
                  opts, breaking)

\* the message run composes from the selected changes and the diff; stats is
\* what collectNumstat returns to buildBody and areaOrder the order range
\* visits the counts map of inferTarget in
MessageFor(changes, diff, stats, opts, areaOrder) ==
    FinalMessage(detectType(changes, diff, opts).type,
                 detectScope(changes, opts.Scope),
                 detectBreaking(changes, diff, opts).breaking,
                 detectBreaking(changes, diff, opts).note,
                 changes, stats, opts, areaOrder)

\* the classification and composition block of run, one local variable after
\* the other, given the texts git may write for --numstat
RunCompose(Numstats) ==
    /\ pc = "compose"
    /\ \E areaOrder \in Perms(AreaKeys(locals.changes)),
          rawStaged \in (IF NeedsNumstat THEN Numstats ELSE {<< >>}),
          rawUnstaged \in (IF NeedsNumstat THEN Numstats ELSE {<< >>}) :
       \E order1 \in AppendOrders(<< >>, parseNumstat(rawUnstaged)) :
       \E order2 \in AppendOrders(
                       appendStats(<< >>, parseNumstat(rawUnstaged), order1),
                       parseNumstat(rawStaged)) :
       \E typed \in {detectType(locals.changes, locals.diff, options)} :
       \E scope \in {detectScope(locals.changes, options.Scope)} :
       \E broken \in {detectBreaking(locals.changes, locals.diff, options)} :
       \E subject \in {buildSubject(typed.type, scope, locals.changes, options,
                                    areaOrder)} :
       \E stats \in {collectNumstat(locals.modeUsed, rawStaged, rawUnstaged,
                                    order1, order2)} :
       \E body \in {buildBody(locals.changes, stats, options, broken.breaking,
                              broken.note)} :
       \E message \in {formatMessage(typed.type, scope, subject, body, options,
                                     broken.breaking)} :
           locals' =
             [locals EXCEPT
                !.commitType = typed.type, !.reasons = typed.reasons,
                !.scope = scope,
                !.breaking = broken.breaking, !.breakingNote = broken.note,
                !.subject = subject, !.body = body,
                !.rangeOrder = areaOrder,
                !.message = message]
    /\ calls' = calls \cup Composers
                \cup (IF NeedsNumstat THEN {"collectNumstat", "parseNumstat"} ELSE {})
    /\ pc' = "llm"
    /\ UNCHANGED <<options, stdout, err>>
    /\ UNCHANGED <<parseVars, shapeVars, callVars>>

\* what generateWithLLM may return: an error, or a content that is not empty
LLMResults ==
    {[content |-> << >>, failed |-> TRUE],
     [content |-> <<"f", "i", "x", ":", " ", "r", "e", "p", "l", "y">>, failed |-> FALSE]}

\* the LLM block of run in which every failure of the LLM is returned
RunLLMAlwaysStrict ==
    /\ pc = "llm"
    /\ IF options.LLMEnabled
       THEN /\ calls' = calls \cup {"generateWithLLM"}
            /\ \E res \in LLMResults :
                 IF res.failed
                 THEN /\ locals' = [locals EXCEPT !.llmFailed = TRUE]
                      /\ Return(Error("llm", ""))
                 ELSE /\ locals' = [locals EXCEPT !.message = res.content,
                                                  !.llmUsed = TRUE]
                      /\ pc' = "println" /\ UNCHANGED err
       ELSE pc' = "println" /\ UNCHANGED <<calls, locals, err>>
    /\ UNCHANGED <<options, stdout>>
    /\ UNCHANGED <<parseVars, shapeVars, callVars>>

\* the LLM block of run
RunLLM ==
    /\ pc = "llm"
    /\ IF options.LLMEnabled
       THEN /\ calls' = calls \cup {"generateWithLLM"}
            /\ \E res \in LLMResults :
                 IF res.failed
                 THEN /\ locals' = [locals EXCEPT !.llmFailed = TRUE]
                      /\ IF options.LLMStrict
                         THEN Return(Error("llm", ""))
                         ELSE pc' = "println" /\ UNCHANGED err
                 ELSE /\ locals' = [locals EXCEPT !.message = res.content,
                                                  !.llmUsed = TRUE]
                      /\ pc' = "println" /\ UNCHANGED err
       ELSE pc' = "println" /\ UNCHANGED <<calls, locals, err>>
    /\ UNCHANGED <<options, stdout>>
    /\ UNCHANGED <<parseVars, shapeVars, callVars>>

\* fmt.Println(message)
RunPrintln ==
    /\ pc = "println"
    /\ stdout' = Append(stdout, locals.message)
    /\ pc' = "copy"
    /\ UNCHANGED <<options, calls, locals, err>>
    /\ UNCHANGED <<parseVars, shapeVars, callVars>>

\* the clipboard block of run: a copy that fails is reported on os.Stderr only
RunCopy ==
    /\ pc = "copy"
    /\ calls' = IF options.Copy THEN calls \cup {"copyToClipboard"} ELSE calls
    /\ pc' = "explain"
    /\ UNCHANGED <<options, locals, stdout, err>>
    /\ UNCHANGED <<parseVars, shapeVars, callVars>>

\* the explain block of run, which writes to os.Stderr, and return nil
RunExplain ==
    /\ pc = "explain"
    /\ calls' = IF options.Explain THEN calls \cup {"printExplain"} ELSE calls
    /\ Return(Nil)
    /\ UNCHANGED <<options, locals, stdout>>
    /\ UNCHANGED <<parseVars, shapeVars, callVars>>

-----------------------------------------------------------------------------
(* run, from its first statement, on small repositories *)

\* no parser and no shape comparison is being stepped
OthersIdle == ParseIdle /\ source = ModeStaged /\ ShapeIdle

\* the values of the -mode, -format, -body and -lang flags, supported or not
RunModes == {"", ModeAuto, ModeStaged, ModeUnstaged, ModeAll, "both"}

RunFormats == {FormatConventional, "fancy"}

RunBodies == {BodyAuto, BodyStats, "full"}

RunLangs == {"auto", "de"}

\* the values of LC_ALL and LANG
RunEnv == {<< >>, <<"r", "u", "_", "R", "U">>}

\* what git writes for the staged changes, the unstaged ones, the untracked files
RunStaged == {StreamOf(<< >>), StreamOf(<<<<<<"M">>, <<"a", ".", "g", "o">>>>>>)}

RunUnstaged == {StreamOf(<< >>), StreamOf(<<<<<<"D">>, <<"a", ".", "g", "o">>>>>>)}

RunUntracked == {<<EmptyStr>>, <<<<"b", ".", "m", "d">>, EmptyStr>>}

RunDiffs == {<<"+", "f", "i", "x">>}

RunNumstats == {<< >>, <<"1", TAB, "2", TAB, "a", ".", "g", "o">>}

RunInit ==
    /\ OthersIdle
    /\ CallIdle
    /\ pc = "ensureGit"
    /\ options \in {Options(m, f, l, b, 0, llm, strict, cp, ex) :
                      m \in RunModes, f \in RunFormats, l \in RunLangs,
                      b \in RunBodies, llm \in BOOLEAN, strict \in BOOLEAN,
                      cp \in BOOLEAN, ex \in BOOLEAN}
    /\ calls = {}
    /\ locals = ZeroLocals
    /\ stdout = << >>
    /\ err = Nil

RunNext ==
    \/ RunEnsureGit
    \/ RunDefaults(RunEnv)
    \/ RunValidate
    \/ RunRevParse
    \/ RunCollectChanges(RunStaged, RunUnstaged, RunUntracked)
    \/ RunSelectChanges
    \/ RunCollectDiff(RunDiffs)
    \/ RunCompose(RunNumstats)
    \/ RunLLM
    \/ RunPrintln
    \/ RunCopy
    \/ RunExplain

SpecRun == RunInit /\ [][RunNext]_vars

-----------------------------------------------------------------------------
(* collectChanges and selectChanges on streams with repeated and shared paths *)

\* the longest sequence of records in a stream
MaxRecords == 2

\* the records of the streams: their fields
SelectRecords ==
    {<<<<"M">>, <<"a">>>>, <<<<"D">>, <<"a">>>>, <<<<"M">>, <<"b">>>>, <<<<"R", "1", "0", "0">>, <<"a">>, <<"b">>>>}

SelectStreams == {StreamOf(rs) : rs \in SeqsUpTo(SelectRecords, MaxRecords)}

SelectUntracked == {<<EmptyStr>>, <<<<"a">>, EmptyStr>>, <<<<"c">>, EmptyStr>>}

\* run has validated its options and found the repository
SelectInit ==
    /\ OthersIdle
    /\ CallIdle
    /\ pc = "collectChanges"
    /\ options \in {Options(m, FormatConventional, "en", BodyAuto, 8,
                            FALSE, FALSE, FALSE, FALSE) :
                      m \in {ModeAuto, ModeStaged, ModeUnstaged, ModeAll}}
    /\ calls = {"ensureGit", "gitOutput rev-parse"}
    /\ locals = ZeroLocals
    /\ stdout = << >>
    /\ err = Nil

SelectNext ==
    \/ RunCollectChanges(SelectStreams, SelectStreams, SelectUntracked)
    \/ RunSelectChanges

SpecSelect == SelectInit /\ [][SelectNext]_vars

-----------------------------------------------------------------------------
(* run in mode all, from collectChanges to the composed message *)

MsgStaged ==
    {StreamOf(<< >>),
     StreamOf(<<<<<<"M">>, <<"a", ".", "g", "o">>>>>>),
     StreamOf(<<<<<<"A">>, <<"x", "/", "c", ".", "g", "o">>>>, <<<<"M">>, <<"a", ".", "g", "o">>>>>>),
     StreamOf(<<<<<<"R", "1", "0", "0">>, <<"x", "/", "c", ".", "g", "o">>, <<"x", "/", "d", ".", "g", "o">>>>, <<<<"M">>, <<"a", ".", "g", "o">>>>>>)}

MsgUnstaged ==
    {StreamOf(<< >>),
     StreamOf(<<<<<<"M">>, <<"x", "/", "c", ".", "g", "o">>>>>>),
     StreamOf(<<<<<<"D">>, <<"b", ".", "m", "d">>>>, <<<<"M">>, <<"a", ".", "g", "o">>>>>>)}

MsgUntracked == {<<EmptyStr>>, <<<<"x", "/", "e", ".", "g", "o">>, EmptyStr>>}

MsgDiffs == {<<"+", "f", "i", "x">>}

MsgInit ==
    /\ OthersIdle
    /\ CallIdle
    /\ pc = "collectChanges"
    /\ options \in {Options(ModeAll, f, l, b, n, FALSE, FALSE, FALSE, FALSE) :
                      f \in {FormatConventional, FormatPlain},
                      l \in {"en", "ru"},
                      b \in {BodyFiles, BodySummary, BodyAuto},
                      n \in {2, 8}}
    /\ calls = {"ensureGit", "gitOutput rev-parse"}
    /\ locals = ZeroLocals
    /\ stdout = << >>
    /\ err = Nil

MsgNext ==
    \/ RunCollectChanges(MsgStaged, MsgUnstaged, MsgUntracked)
    \/ RunSelectChanges
    \/ RunCollectDiff(MsgDiffs)
    \/ RunCompose({<< >>})

SpecMessage == MsgInit /\ [][MsgNext]_vars

-----------------------------------------------------------------------------
(* parseNumstat and collectNumstat, each called once on the output of git *)

\* the most lines one --numstat output has
MaxLines == 2

\* lines of a --numstat output: text files, a binary file, and lines git does
\* not write itself: a negative count, a count that is no number, two fields
NumstatLineSet ==
    {<<"1", TAB, "2", TAB, "a", ".", "g", "o">>, <<"2", TAB, "0", TAB, "a", ".", "g", "o">>, <<"3", TAB, "0", TAB, "b", ".", "g", "o">>, <<"-", TAB, "-", TAB, "a", ".", "g", "o">>, <<"-", "1", TAB, "2", TAB, "a", ".", "g", "o">>, <<"x", TAB, "1", TAB, "b", ".", "g", "o">>, <<"1", TAB, "2">>}

\* what gitOutput returns for "diff --numstat": the lines joined by "\n",
\* without a trailing "\n"
NumstatRaws == {Join(ls, <<NL>>) : ls \in SeqsUpTo(NumstatLineSet, MaxLines)}

\* the outputs of at most two lines
NumstatShortRaws == {raw \in NumstatRaws : Len(Split(raw, NL)) <= 2}

NumstatInit ==
    /\ fn = "input"
    /\ \E rawStaged \in NumstatRaws, rawUnstaged \in NumstatShortRaws :
         args = [rawStaged |-> rawStaged, rawUnstaged |-> rawUnstaged, mode |-> << >>]
    /\ result = << >>
    /\ OthersIdle
    /\ RunIdle

\* parseNumstat(out) on the output of "diff --cached --numstat"
CallParseNumstat ==
    /\ fn = "input"
    /\ fn' = "parseNumstat"
    /\ result' = parseNumstat(args.rawStaged)
    /\ UNCHANGED args
    /\ UNCHANGED <<parseVars, shapeVars, runVars>>

\* collectNumstat(mode)
CallCollectNumstat ==
    /\ fn = "input"
    /\ fn' = "collectNumstat"
    /\ \E mode \in {ModeStaged, ModeUnstaged, ModeAll, ModeAuto} :
       \E first \in {parseNumstat(args.rawUnstaged)} :
       \E second \in {parseNumstat(args.rawStaged)} :
       \E order1 \in (IF mode = ModeAll THEN AppendOrders(<< >>, first) ELSE {<< >>}) :
       \E combined \in {appendStats(<< >>, first, order1)} :
       \E order2 \in (IF mode = ModeAll THEN AppendOrders(combined, second) ELSE {<< >>}) :
         /\ args' = [args EXCEPT !.mode = mode]
         /\ result' = collectNumstat(mode, args.rawStaged, args.rawUnstaged, order1, order2)
    /\ UNCHANGED <<parseVars, shapeVars, runVars>>

NumstatNext == CallParseNumstat \/ CallCollectNumstat

SpecNumstat == NumstatInit /\ [][NumstatNext]_vars

-----------------------------------------------------------------------------
(* trimSubject, called once *)

\* the most characters a subject has
MaxSubjectLen == 6

\* the characters of a subject: a letter, a Cyrillic letter (two bytes in
\* UTF-8, one rune) and the space
SubjectChars == {"a", "~zh", " "}

\* subjects as buildSubject returns them: strings.TrimSpace has removed the
\* whitespace at both ends
Subjects ==
    {s \in SeqsUpTo(SubjectChars, MaxSubjectLen) :
        s = << >> \/ (s[1] # " " /\ s[Len(s)] # " ")}

TrimInit ==
    /\ fn = "input"
    /\ \E s \in Subjects, max \in 0..MaxSubjectLen : args = [s |-> s, max |-> max]
    /\ result = << >>
    /\ OthersIdle
    /\ RunIdle

\* trimSubject(s, max)
CallTrimSubject ==
    /\ fn = "input"
    /\ fn' = "trimSubject"
    /\ result' = trimSubject(args.s, args.max)
    /\ UNCHANGED args
    /\ UNCHANGED <<parseVars, shapeVars, runVars>>

TrimNext == CallTrimSubject

SpecTrim == TrimInit /\ [][TrimNext]_vars

-----------------------------------------------------------------------------
(* formatMessage, called once *)

\* the types detectType infers
CommitTypes ==
    {<<"f", "e", "a", "t">>, <<"f", "i", "x">>, <<"d", "o", "c", "s">>, <<"t", "e", "s", "t">>, <<"r", "e", "f", "a", "c", "t", "o", "r">>, <<"p", "e", "r", "f">>, <<"s", "t", "y", "l", "e">>, <<"b", "u", "i", "l", "d">>,
     <<"c", "i">>, <<"c", "h", "o", "r", "e">>}

\* scopes as sanitizeScope returns them
FormatScopes == {<< >>, <<"a", "p", "i">>, <<"c", "m", "d", "/", "x", "-", "1">>}

\* subjects as buildSubject returns them, one with the characters of a prefix
FormatSubjects == {<<"A", "d", "d", " ", "a", "p", "i">>, <<"U", "p", "d", "a", "t", "e", " ", "a", "(", "b", ")", "!", ":", " ", "c">>}

\* bodies as buildBody returns them
FormatBodies == {<< >>, <<"-", " ", "m", "o", "d", " ", "a", ".", "g", "o">>}

FormatInit ==
    /\ fn = "input"
    /\ \E format \in {FormatConventional, FormatPlain, FormatGitmoji},
          commitType \in CommitTypes, scope \in FormatScopes,
          subject \in FormatSubjects, body \in FormatBodies,
          breaking \in BOOLEAN, emoji \in BOOLEAN :
         args = [commitType |-> commitType, scope |-> scope, subject |-> subject,
                 body |-> body, breaking |-> breaking,
                 opts |-> [Options(ModeAuto, format, "en", BodyAuto, 8, FALSE, FALSE, FALSE, FALSE)
                             EXCEPT !.Emoji = emoji]]
    /\ result = << >>
    /\ OthersIdle
    /\ RunIdle

\* formatMessage(commitType, scope, subject, body, opts, breaking)
CallFormatMessage ==
    /\ fn = "input"
    /\ fn' = "formatMessage"
    /\ result' = formatMessage(args.commitType, args.scope, args.subject, args.body,
                               args.opts, args.breaking)
    /\ UNCHANGED args
    /\ UNCHANGED <<parseVars, shapeVars, runVars>>

FormatNext == CallFormatMessage

SpecFormat == FormatInit /\ [][FormatNext]_vars

-----------------------------------------------------------------------------
(* detectBreaking, called once *)

\* the most lines a diff has
MaxDiffLines == 2

\* lines of a "git diff -U0" output: removed and added declarations, exported
\* or not, a comment with the keyword, and metadata lines that hold a keyword
\* or an exported name
BreakingLineSet ==
    {<<"-", "f", "u", "n", "c", " ", "O", "l", "d", "A", "P", "I", "(", ")", " ", "{", "}">>, <<"-", "t", "y", "p", "e", " ", "A", "l", "p", "h", "a", " ", "s", "t", "r", "u", "c", "t", " ", "{">>, <<"+", "f", "u", "n", "c", " ", "N", "e", "w", "A", "P", "I", "(", ")", " ", "{", "}">>,
     <<"-", "e", "x", "p", "o", "r", "t", " ", "d", "e", "f", "a", "u", "l", "t", " ", "c", "l", "a", "s", "s", " ", "W", "i", "d", "g", "e", "t", " ", "{">>, <<"-", "f", "u", "n", "c", " ", "h", "e", "l", "p", "e", "r", "(", ")", " ", "{", "}">>,
     <<"+", "/", "/", " ", "B", "R", "E", "A", "K", "I", "N", "G", " ", "C", "H", "A", "N", "G", "E", ":", " ", "d", "r", "o", "p", " ", "v", "1">>, <<"+", "+", "+", " ", "b", "/", "b", "r", "e", "a", "k", "i", "n", "g", "-", "c", "h", "a", "n", "g", "e", ".", "m", "d">>,
     <<"@", "@", " ", "-", "1", " ", "+", "0", ",", "0", " ", "@", "@", " ", "f", "u", "n", "c", " ", "O", "l", "d", "A", "P", "I", "(", ")", " ", "{">>, <<"i", "n", "d", "e", "x", " ", "b", "r", "e", "a", "k", "i", "n", "g", " ", "c", "h", "a", "n", "g", "e">>}

\* what gitOutput returns for "diff -U0"
BreakingDiffs == {Join(ls, <<NL>>) : ls \in SeqsUpTo(BreakingLineSet, MaxDiffLines)}

BreakingInit ==
    /\ fn = "input"
    /\ \E diff \in BreakingDiffs, breaking \in BOOLEAN :
         args = [changes |-> << >>, diff |-> diff,
                 opts |-> [Options(ModeAuto, FormatConventional, "en", BodyAuto, 8,
                                   FALSE, FALSE, FALSE, FALSE)
                             EXCEPT !.Breaking = breaking]]
    /\ result = << >>
    /\ OthersIdle
    /\ RunIdle

\* detectBreaking(changes, diff, opts)
CallDetectBreaking ==
    /\ fn = "input"
    /\ fn' = "detectBreaking"
    /\ result' = detectBreaking(args.changes, args.diff, args.opts)
    /\ UNCHANGED args
    /\ UNCHANGED <<parseVars, shapeVars, runVars>>

BreakingNext == CallDetectBreaking

SpecBreaking == BreakingInit /\ [][BreakingNext]_vars

-----------------------------------------------------------------------------
(* detectScope, called once *)

\* the most records of one call
MaxChanges == 3

\* paths git reports: in two directories of pkg, in cmd, without a directory,
\* in a directory that differs from pkg by case, in a directory with a space
ScopePaths ==
    {<<"p", "k", "g", "/", "a", "/", "x", ".", "g", "o">>, <<"p", "k", "g", "/", "b", "/", "y", ".", "g", "o">>, <<"c", "m", "d", "/", "y", ".", "g", "o">>, <<"x", ".", "g", "o">>, <<"P", "k", "g", "/", "z", ".", "g", "o">>, <<"M", "y", " ", "D", "i", "r", "/", "a", ".", "g", "o">>}

\* the values of the -scope flag: none, blank, given
ScopeOverrides == {<< >>, <<" ">>, <<"C", "o", "r", "e", " ", "A", "P", "I">>}

ScopeInit ==
    /\ fn = "input"
    /\ \E paths \in SeqsUpTo(ScopePaths, MaxChanges), override \in ScopeOverrides :
         args = [changes |-> [k \in 1..Len(paths) |-> Change(paths[k], << >>, <<"M">>, ModeStaged)],
                 override |-> override]
    /\ result = << >>
    /\ OthersIdle
    /\ RunIdle

\* detectScope(changes, opts.Scope)
CallDetectScope ==
    /\ fn = "input"
    /\ fn' = "detectScope"
    /\ result' = detectScope(args.changes, args.override)
    /\ UNCHANGED args
    /\ UNCHANGED <<parseVars, shapeVars, runVars>>

ScopeNext == CallDetectScope

SpecScope == ScopeInit /\ [][ScopeNext]_vars

-----------------------------------------------------------------------------
(* detectType, called once *)

\* records that are not code: docs, two tests, ci, build, chore
NonCodeRecords ==
    {Change(<<"R", "E", "A", "D", "M", "E", ".", "m", "d">>, << >>, <<"M">>, ModeStaged),
     Change(<<"a", "_", "t", "e", "s", "t", ".", "g", "o">>, << >>, <<"M">>, ModeStaged),
     Change(<<"b", "_", "t", "e", "s", "t", ".", "g", "o">>, << >>, <<"A">>, ModeStaged),
     Change(<<".", "g", "i", "t", "h", "u", "b", "/", "w", "o", "r", "k", "f", "l", "o", "w", "s", "/", "c", "i", ".", "y", "m", "l">>, << >>, <<"M">>, ModeStaged),
     Change(<<"g", "o", ".", "m", "o", "d">>, << >>, <<"M">>, ModeStaged),
     Change(<<".", "g", "i", "t", "i", "g", "n", "o", "r", "e">>, << >>, <<"M">>, ModeStaged)}

\* code records: modified, untracked, and with a performance hint in the
\* path, next to one docs record
MixedRecords ==
    {Change(<<"m", "a", "i", "n", ".", "g", "o">>, << >>, <<"M">>, ModeStaged),
     Change(<<"n", "e", "w", ".", "g", "o">>, << >>, <<"U">>, ModeUnstaged),
     Change(<<"u", "t", "i", "l", "/", "p", "e", "r", "f", ".", "g", "o">>, << >>, <<"M">>, ModeStaged),
     Change(<<"R", "E", "A", "D", "M", "E", ".", "m", "d">>, << >>, <<"M">>, ModeStaged)}

\* code records with one of the refactor words in the path, in any case
RefactorRecords ==
    {Change(<<"i", "n", "t", "e", "r", "n", "a", "l", "/", "r", "e", "f", "a", "c", "t", "o", "r", "/", "x", ".", "g", "o">>, << >>, <<"M">>, ModeStaged),
     Change(<<"C", "l", "e", "a", "n", "u", "p", ".", "g", "o">>, << >>, <<"M">>, ModeStaged),
     Change(<<"r", "e", "s", "t", "r", "u", "c", "t", "u", "r", "e", "/", "a", "p", "i", ".", "g", "o">>, << >>, <<"M">>, ModeStaged)}

\* diffs: none, a new exported symbol, a keyword of each kind, a keyword in a
\* metadata line only
TypeDiffs ==
    {<< >>, <<"+", "f", "u", "n", "c", " ", "N", "e", "w", "H", "a", "n", "d", "l", "e", "r", "(", ")", " ", "{", "}">>, <<"-", "s", "p", "e", "e", "d", " ", "u", "p">>, <<"+", "C", "l", "e", "a", "n", "u", "p">>,
     <<"+", "r", "u", "n", " ", "l", "i", "n", "t">>, <<"+", "+", "+", " ", "b", "/", "s", "t", "y", "l", "e", ".", "g", "o">>}

\* the calls examined, as <<changes, diff, opts.Type>>: records that are not
\* code, without and with a keyword in the diff; code and docs records with
\* every diff; the -type flag with one record and every diff; code records
\* with a refactor word in the path, without and with a keyword in the diff
TypeCases ==
    {<<changes, diff, << >>>> : changes \in SeqsUpTo(NonCodeRecords, MaxChanges),
                               diff \in {<< >>, <<"-", "s", "p", "e", "e", "d", " ", "u", "p">>}}
    \cup {<<changes, diff, << >>>> : changes \in SeqsUpTo(MixedRecords, MaxChanges),
                                    diff \in TypeDiffs}
    \cup {<<changes, diff, << >>>> : changes \in SeqsUpTo(RefactorRecords, MaxChanges),
                                    diff \in {<< >>, <<"+", "/", "/", " ", "R", "e", "s", "t", "r", "u", "c", "t", "u", "r", "e">>, <<"-", "s", "p", "e", "e", "d", " ", "u", "p">>}}
    \cup {<<<<r>>, diff, <<"F", "e", "a", "t">>>> : r \in NonCodeRecords \cup MixedRecords, diff \in TypeDiffs}

TypeInit ==
    /\ fn = "input"
    /\ \E case \in TypeCases :
         args = [changes |-> case[1], diff |-> case[2],
                 opts |-> [Options(ModeAuto, FormatConventional, "en", BodyAuto, 8,
                                   FALSE, FALSE, FALSE, FALSE)
                             EXCEPT !.Type = case[3]]]
    /\ result = << >>
    /\ OthersIdle
    /\ RunIdle

\* detectType(changes, diff, opts)
CallDetectType ==
    /\ fn = "input"
    /\ fn' = "detectType"
    /\ result' = detectType(args.changes, args.diff, args.opts)
    /\ UNCHANGED args
    /\ UNCHANGED <<parseVars, shapeVars, runVars>>

TypeNext == CallDetectType

SpecType == TypeInit /\ [][TypeNext]_vars

-----------------------------------------------------------------------------
(* the classification of run up to buildSubject, called once *)

\* paths git reports: two files of pkg/a, one of pkg/b, one of cmd/tool, one
\* without a directory, one in a directory that is no container
SubjectPaths ==
    {<<"p", "k", "g", "/", "a", "/", "x", ".", "g", "o">>, <<"p", "k", "g", "/", "a", "/", "y", ".", "g", "o">>, <<"p", "k", "g", "/", "b", "/", "z", ".", "g", "o">>, <<"c", "m", "d", "/", "t", "o", "o", "l", "/", "m", ".", "g", "o">>, <<"m", "a", "i", "n", ".", "g", "o">>,
     <<"w", "e", "b", "/", "a", "p", "p", ".", "j", "s">>}

\* the values of the -scope flag: none, given
SubjectOverrides == {<< >>, <<"a", "p", "i">>}

SubjectInit ==
    /\ fn = "input"
    /\ \E paths \in SeqsUpTo(SubjectPaths, MaxChanges),
          override \in SubjectOverrides, lang \in {"en", "ru"} :
         /\ paths # << >>
         /\ args = [changes |-> [k \in 1..Len(paths) |->
                                   Change(paths[k], << >>, <<"M">>, ModeStaged)],
                    diff |-> << >>,
                    opts |-> [Options(ModeAuto, FormatConventional, lang, BodyAuto, 8,
                                      FALSE, FALSE, FALSE, FALSE)
                                EXCEPT !.Scope = override]]
    /\ result = << >>
    /\ OthersIdle
    /\ RunIdle

\* commitType, scope and subject as run computes them, with the target
\* buildSubject got from inferTarget; range visits the counts map in any order
CallBuildSubject ==
    /\ fn = "input"
    /\ fn' = "buildSubject"
    /\ \E areaOrder \in Perms(AreaKeys(args.changes)) :
       \E typed \in {detectType(args.changes, args.diff, args.opts)} :
       \E scope \in {detectScope(args.changes, args.opts.Scope)} :
           result' = [commitType |-> typed.type,
                      scope |-> scope,
                      target |-> inferTarget(args.changes, scope, areaOrder),
                      subject |-> buildSubject(typed.type, scope, args.changes,
                                               args.opts, areaOrder)]
    /\ UNCHANGED args
    /\ UNCHANGED <<parseVars, shapeVars, runVars>>

SubjectNext == CallBuildSubject

SpecSubject == SubjectInit /\ [][SubjectNext]_vars

-----------------------------------------------------------------------------
(* categorizePath, called once *)

\* the most directories a path has
MaxDepth == 2

\* directory names: test directories in two spellings and cases, a name that
\* only starts with "test", and the first segments of the other categories
DirNames ==
    {<<"t", "e", "s", "t", "s">>, <<"T", "e", "s", "t">>, <<"t", "e", "s", "t", "i", "n", "g">>, <<"s", "r", "c">>, <<"d", "o", "c", "s">>, <<".", "g", "i", "t", "h", "u", "b">>, <<"w", "o", "r", "k", "f", "l", "o", "w", "s">>,
     <<"b", "u", "i", "l", "d">>, <<"s", "c", "r", "i", "p", "t", "s">>}

\* base names: plain code, the test suffixes, and one of each other category
BaseNames ==
    {<<"h", "e", "l", "p", "e", "r", ".", "p", "y">>, <<"u", "t", "i", "l", "_", "t", "e", "s", "t", ".", "g", "o">>, <<"a", ".", "s", "p", "e", "c", ".", "t", "s">>, <<"b", ".", "t", "e", "s", "t", ".", "j", "s">>, <<"R", "E", "A", "D", "M", "E", ".", "m", "d">>,
     <<"g", "u", "i", "d", "e", ".", "r", "s", "t">>, <<"c", "i", ".", "y", "m", "l">>, <<"g", "o", ".", "m", "o", "d">>, <<".", "g", "i", "t", "i", "g", "n", "o", "r", "e">>}

\* the paths git reports
CategoryPaths ==
    {Join(dirs \o <<base>>, <<"/">>) : dirs \in SeqsUpTo(DirNames, MaxDepth),
                                    base \in BaseNames}

CategoryInit ==
    /\ fn = "input"
    /\ \E path \in CategoryPaths : args = [path |-> path]
    /\ result = << >>
    /\ OthersIdle
    /\ RunIdle

\* categorizePath(path)
CallCategorizePath ==
    /\ fn = "input"
    /\ fn' = "categorizePath"
    /\ result' = categorizePath(args.path)
    /\ UNCHANGED args
    /\ UNCHANGED <<parseVars, shapeVars, runVars>>

CategoryNext == CallCategorizePath

SpecCategory == CategoryInit /\ [][CategoryNext]_vars

-----------------------------------------------------------------------------
(* Claims about the parser *)

\* the record a well-formed rename/copy record decodes to
RenameRecord(r, src) == Change(r.newPath, r.oldPath, StatusChar(r.status), src)

\* C2: for every status R or C, with or without a similarity number, and
\* every (non-empty) old and new path, the stream with the record in shape 1
\* and the stream with it in shape 2 parse to the same records, also with
\* other records before and after it, and the record they hold for it is
\* (OldPath, Path, Status) = (oldpath, newpath, first letter of the status).
C2_ShapeInvariance ==
    shapeDone = {1, 2}
        => /\ shapeOut[1] = shapeOut[2]
           /\ \E k \in 1..Len(shapeOut[1]) : shapeOut[1][k] = RenameRecord(rec, source)
           /\ Len(shapeOut[1])
                = Len(parseNameStatus(before, source)) + 1
                    + Len(parseNameStatus(after, source))

\* C2 witness: both shapes parsed, for a status with a similarity number, with
\* a record before and a record after the rename.
C2_Witness ==
    /\ shapeDone = {1, 2}
    /\ Len(rec.status) = 2
    /\ rec.oldPath # rec.newPath
    /\ Len(shapeOut[2]) = 3

\* the record that starts at field k is a rename/copy record, in either
\* physical shape, and the fields run out before it is complete
TruncatedRenameAt(fs, k) ==
    LET entry == FieldAt(fs, k) IN
    /\ k < Len(fs)
    /\ entry # EmptyStr
    /\ IF Contains(entry, <<TAB>>)
       THEN IsRenameOrCopy(StatusChar(SplitN2(entry, <<TAB>>)[1])) /\ k + 1 >= Len(fs)
       ELSE IsRenameOrCopy(StatusChar(entry)) /\ k + 2 >= Len(fs)

\* C3 (as claimed): every record parseNameStatus has produced has a non-empty
\* OldPath if and only if its status is R or C.
C3_OldPathIffRenameOrCopy ==
    \A k \in 1..Len(out) :
        (out[k].OldPath # EmptyStr) <=> IsRenameOrCopy(out[k].Status)

\* C4: when the cursor stands on a rename/copy record that the fields run out
\* under, the loop step stops the parse, appends nothing, panics not, and the
\* records returned are exactly those the fields before that record decode to.
C4_TruncatedRenameStops ==
    [][(ppc = "loop" /\ TruncatedRenameAt(fields, i))
        => /\ ppc' = "done"
           /\ out' = out
           /\ out' = parseNameStatus(SubSeq(fields, 1, i), source)]_vars

\* C4 witness: the parse has stopped on a truncated rename/copy record with a
\* record decoded before it.
C4_Witness ==
    /\ ppc = "done"
    /\ TruncatedRenameAt(fields, i)
    /\ i > 0
    /\ Len(out) > 0

\* C5: every loop step either stops the parse or moves the cursor forward by
\* at least one field, and reads no field at an index past the end; the
\* cursor never passes the end, so the loop ends after at most len(fields)
\* steps.
C5_ParseTerminates ==
    [][ppc = "loop"
        => /\ ppc' = "done" \/ (ppc' = "loop" /\ i' > i)
           /\ hi' < Len(fields)
           /\ i' <= Len(fields)]_vars

\* C5 witness: a parse that read the last field of a three-field stream as
\* the new path of a rename and returned with the cursor at the end.
C5_Witness ==
    /\ ppc = "done"
    /\ Len(fields) = 3
    /\ i = 3
    /\ hi = 2
    /\ Len(out) = 1
    /\ out[1].OldPath # EmptyStr

-----------------------------------------------------------------------------
(* Claims about mergeChanges and selectChanges *)

\* the paths of a sequence of records
PathsOf(s) == {s[k].Path : k \in 1..Len(s)}

\* the positions of the records of s for the path p
RecordsFor(s, p) == {k \in 1..Len(s) : s[k].Path = p}

\* selectChanges has returned
Selected == "selectChanges" \in calls

\* selectChanges has returned what mergeChanges(staged, unstaged) returned
Merged == Selected /\ options.Mode = ModeAll

\* C6: when a path occurs in both the staged and the unstaged sequence, the
\* merged result has exactly one record for it, that record has the status
\* and the OldPath of a staged record for the path, and its origin is ModeAll.
C6_StagedWinsOnOverlap ==
    Merged
        => \A p \in PathsOf(locals.staged) \cap PathsOf(locals.unstaged) :
             /\ Cardinality(RecordsFor(locals.changes, p)) = 1
             /\ \A k \in RecordsFor(locals.changes, p) :
                  /\ \E j \in RecordsFor(locals.staged, p) :
                       /\ locals.changes[k].Status = locals.staged[j].Status
                       /\ locals.changes[k].OldPath = locals.staged[j].OldPath
                  /\ locals.changes[k].Source = ModeAll

\* C6 witness: a merge in which a path is staged with one status and unstaged
\* with another, next to a path that is in one sequence only.
C6_Witness ==
    /\ Merged
    /\ Len(locals.changes) >= 2
    /\ \E j \in 1..Len(locals.staged), u \in 1..Len(locals.unstaged) :
         /\ locals.staged[j].Path = locals.unstaged[u].Path
         /\ locals.staged[j].Status # locals.unstaged[u].Status
         /\ Cardinality(RecordsFor(locals.staged, locals.staged[j].Path)) = 1

\* C7 (as claimed): when no path of the staged sequence occurs in the unstaged
\* sequence, the merged result has exactly len(staged)+len(unstaged) records.
C7_DisjointMergeKeepsAll ==
    (Merged /\ PathsOf(locals.staged) \cap PathsOf(locals.unstaged) = {})
        => Len(locals.changes) = Len(locals.staged) + Len(locals.unstaged)

\* no path occurs twice in the staged and the unstaged sequence taken together
AllPathsDistinct ==
    Cardinality(PathsOf(locals.staged \o locals.unstaged))
        = Len(locals.staged) + Len(locals.unstaged)

\* C7 (amended): when no path occurs more than once in the staged and the
\* unstaged sequence taken together, the merged result has exactly
\* len(staged)+len(unstaged) records.
C7_DistinctMergeKeepsAll ==
    (Merged /\ AllPathsDistinct)
        => Len(locals.changes) = Len(locals.staged) + Len(locals.unstaged)

\* C7 witness: a merge of two staged records and at least one unstaged record,
\* all of different paths.
C7_Witness ==
    /\ Merged
    /\ AllPathsDistinct
    /\ Len(locals.staged) = 2
    /\ Len(locals.unstaged) >= 1
    /\ Len(locals.changes) = Len(locals.staged) + Len(locals.unstaged)

\* the untracked paths collectChanges was given
UntrackedPaths ==
    {TrimSpace(locals.untrackedRaw[k]) : k \in 1..Len(locals.untrackedRaw)}
        \ {EmptyStr}

\* C10: in auto mode selectChanges returns (ModeStaged, the staged records)
\* when there are staged records, and otherwise (ModeUnstaged, the unstaged
\* records), which hold a record of status U for every untracked path; the
\* mode returned is never auto, and neither the mode nor the origin of a
\* record returned is ModeAll.
C10_AutoResolution ==
    (Selected /\ options.Mode = ModeAuto)
        => /\ IF Len(locals.staged) > 0
              THEN locals.modeUsed = ModeStaged /\ locals.changes = locals.staged
              ELSE /\ locals.modeUsed = ModeUnstaged
                   /\ locals.changes = locals.unstaged
                   /\ \A p \in UntrackedPaths :
                        \E k \in 1..Len(locals.changes) :
                          /\ locals.changes[k].Path = p
                          /\ locals.changes[k].Status = <<"U">>
           /\ locals.modeUsed \notin {ModeAuto, ModeAll}
           /\ \A k \in 1..Len(locals.changes) : locals.changes[k].Source # ModeAll

\* C10 witness: auto mode with staged and unstaged records at once.
C10_Witness ==
    /\ Selected
    /\ options.Mode = ModeAuto
    /\ Len(locals.staged) > 0
    /\ Len(locals.unstaged) > 0
    /\ locals.modeUsed = ModeStaged

-----------------------------------------------------------------------------
(* Claims about run *)

\* the language, the format, the body mode or the mode run was given is not
\* supported ("auto" and "" select the detected language, "" the mode auto)
InvalidConfig ==
    \/ options.Lang \notin {"auto", "", "en", "ru"}
    \/ ~validFormat(options.Format)
    \/ ~validBody(options.Body)
    \/ (options.Mode # "" /\ ~validMode(options.Mode))

\* C8: when the language, the format, the body mode or the mode is not
\* supported, run calls neither collectChanges nor collectDiff nor a parser,
\* writes no message, and what it returns is an error.
C8_InvalidConfigRejectedFirst ==
    InvalidConfig
        => /\ calls \cap (Collectors \cup {"selectChanges"}) = {}
           /\ stdout = << >>
           /\ pc = "returned"
                => err.kind \in {"git is not available in PATH", "unsupported lang",
                                 "unsupported format", "unsupported body mode",
                                 "unsupported mode"}

\* C8 witness: run has returned "unsupported mode", the last of the four
\* checks, after the language was detected.
C8_Witness ==
    /\ pc = "returned"
    /\ InvalidConfig
    /\ err = Error("unsupported mode", "both")
    /\ "detectLang" \in calls

\* what run does after the check for an empty selection
AfterSelection ==
    Composers \cup {"collectDiff", "collectNumstat", "generateWithLLM",
                    "copyToClipboard", "printExplain"}

\* the selection is empty: run returns "no changes found" with the mode used,
\* having done nothing after the selection
EmptySelectionFails ==
    /\ pc = "returned"
    /\ err = Error("no changes found for mode", locals.modeUsed)
    /\ locals.modeUsed \in {ModeStaged, ModeUnstaged, ModeAll}
    /\ calls \cap AfterSelection = {}
    /\ stdout = << >>

\* C9 (as claimed): when the selected sequence is empty, run returns the "no
\* changes found" error naming the mode used and neither classifies, writes a
\* message, calls the LLM, copies nor explains; when it is not empty, run has
\* written exactly one message when it returns.
C9_EmptyFailsElseOneMessage ==
    Selected
        => IF Len(locals.changes) = 0
           THEN EmptySelectionFails
           ELSE pc = "returned" => Len(stdout) = 1

\* C9 (amended): as claimed, except that when the selection is not empty and
\* the LLM is enabled, strict and fails, run returns the LLM's error and has
\* written no message; in every other case it returns nil and has written
\* exactly one message, the one it composed or the LLM's.
C9_EmptyFailsElseOneMessageUnlessStrict ==
    Selected
        => IF Len(locals.changes) = 0
           THEN EmptySelectionFails
           ELSE pc = "returned"
                  => IF options.LLMEnabled /\ options.LLMStrict /\ locals.llmFailed
                     THEN stdout = << >> /\ err = Error("llm", "")
                     ELSE stdout = <<locals.message>> /\ err = Nil

\* C9 witness: run in auto mode has returned on an empty selection.
C9_Witness ==
    /\ Selected
    /\ options.Mode = ModeAuto
    /\ Len(locals.changes) = 0
    /\ pc = "returned"
    /\ err = Error("no changes found for mode", ModeUnstaged)

-----------------------------------------------------------------------------
(* Claims about the message *)

\* one of the orders mergeChanges may return the records of this run in
ReferenceMerge ==
    mergeChanges(locals.staged, locals.unstaged,
                 CHOOSE order \in MergeOrders(locals.staged, locals.unstaged) : TRUE)

\* one of the orders range may visit the counts map of inferTarget in
ReferenceAreaOrder == CHOOSE order \in Perms(AreaKeys(ReferenceMerge)) : TRUE

\* C1: for the staged and unstaged records, the diff and the options of a
\* run in mode all with the body mode files, summary or auto, the message run
\* composes is the same whatever order mergeChanges returned the records in
\* and whatever order range visited the counts map of inferTarget in: it is
\* the message composed for one fixed order of each.
C1_MessageIndependentOfMapOrder ==
    (pc = "llm" /\ locals.modeUsed = ModeAll)
        => locals.message
             = MessageFor(ReferenceMerge, locals.diff, << >>, options,
                          ReferenceAreaOrder)

\* C1 witness: a message composed from three or more merged records that
\* mergeChanges returned in another order than the reference one, with no
\* common scope, so that inferTarget ran over a counts map of several areas,
\* in another order than the reference one.
C1_Witness ==
    /\ pc = "llm"
    /\ locals.modeUsed = ModeAll
    /\ Len(locals.changes) >= 3
    /\ locals.changes # ReferenceMerge
    /\ locals.scope = << >>
    /\ Len(locals.rangeOrder) >= 2
    /\ locals.rangeOrder # ReferenceAreaOrder
    /\ ResolvedBody(locals.changes, options) = BodyFiles

-----------------------------------------------------------------------------
(* Claims about parseNumstat and collectNumstat *)

\* the records of a sequence of stat records, as a set
StatSet(stats) == {stats[k] : k \in 1..Len(stats)}

\* a count field that is a non-negative integer
IsCount(s) == s # << >> /\ \A k \in 1..Len(s) : IsDigit(s[k])

\* a line of exactly three tab-separated fields whose first two are counts,
\* or both "-"
WellFormedLine(line) ==
    /\ Cardinality({k \in 1..Len(line) : line[k] = TAB}) = 2
    /\ LET parts == Split(line, TAB) IN
         \/ IsCount(parts[1]) /\ IsCount(parts[2])
         \/ parts[1] = <<"-">> /\ parts[2] = <<"-">>

\* C11: every record parseNumstat returns has added >= 0 and deleted >= 0,
\* and it returns one record for each line of three tab-separated fields
\* whose counts are non-negative integers (or both "-") and none for any
\* other line.
C11_CountsNonNegative ==
    fn = "parseNumstat"
        => /\ \A k \in 1..Len(result) : result[k].Added >= 0 /\ result[k].Deleted >= 0
           /\ LET lines == Split(args.rawStaged, NL) IN
                Len(result) = Cardinality({k \in 1..Len(lines) : WellFormedLine(lines[k])})

\* C12: every record with binary = true has added = 0 and deleted = 0, out
\* of parseNumstat and out of collectNumstat in every mode.
C12_BinaryHasNoCounts ==
    fn \in {"parseNumstat", "collectNumstat"}
        => \A k \in 1..Len(result) :
             result[k].Binary => result[k].Added = 0 /\ result[k].Deleted = 0

\* the sum of a count field over the records of stats for the path p
RECURSIVE SumField(_, _, _)
SumField(stats, p, field) ==
    IF stats = << >> THEN 0
    ELSE (IF Head(stats).Path = p THEN Head(stats)[field] ELSE 0)
         + SumField(Tail(stats), p, field)

\* for each path of stats one record: the sums of the counts and the OR of
\* the binary flags of its records
SummedByPath(stats) ==
    {[Path |-> p,
      Added |-> SumField(stats, p, "Added"),
      Deleted |-> SumField(stats, p, "Deleted"),
      Binary |-> \E k \in 1..Len(stats) : stats[k].Path = p /\ stats[k].Binary]
     : p \in {stats[k].Path : k \in 1..Len(stats)}}

\* C13: in mode all collectNumstat returns, for each path, one record whose
\* counts are the sums and whose binary flag is the OR over all records of
\* the path in both sources, whichever source comes first and whatever order
\* the maps are iterated in.
C13_AggregationIsOrderFree ==
    (fn = "collectNumstat" /\ args.mode = ModeAll)
        => LET unstaged == parseNumstat(args.rawUnstaged)
               staged == parseNumstat(args.rawStaged)
           IN /\ StatSet(result) = SummedByPath(unstaged \o staged)
              /\ StatSet(result) = SummedByPath(staged \o unstaged)
              /\ Len(result) = Cardinality(StatSet(result))
              /\ \A j, k \in 1..Len(result) : result[j].Path = result[k].Path => j = k

\* C13 witness: an aggregation in which one path has counts in both sources
\* and another path is in one source only.
C13_Witness ==
    /\ fn = "collectNumstat"
    /\ args.mode = ModeAll
    /\ Len(result) = 2
    /\ \E k \in 1..Len(result) :
         /\ ~result[k].Binary
         /\ \E u \in StatSet(parseNumstat(args.rawUnstaged)),
               s \in StatSet(parseNumstat(args.rawStaged)) :
              /\ u.Path = result[k].Path /\ s.Path = result[k].Path
              /\ u.Added > 0 /\ s.Added > 0 /\ u.Added # s.Added
              /\ result[k].Added = u.Added + s.Added

-----------------------------------------------------------------------------
(* Claims about trimSubject and formatMessage *)

\* s without the spaces at its end
WithoutTrailingSpaces(s) ==
    LET ends == {n \in 0..Len(s) : n = 0 \/ s[n] # " "}
        n == CHOOSE m \in ends : \A k \in ends : k <= m
    IN SubSeq(s, 1, n)

\* the 0-based indexes of the spaces among the first max characters of s
SpaceIndexes(s, max) == {k \in 0..(max - 1) : s[k + 1] = " "}

\* the 0-based index to cut s at: the last space among the first max
\* characters, or max when there is none or it is at an index below 3
CutIndex(s, max) ==
    LET spaces == SpaceIndexes(s, max)
        last == CHOOSE k \in spaces : \A j \in spaces : j <= k
    IN IF spaces = {} THEN max ELSE IF last < 3 THEN max ELSE last

\* C15: for max > 0 a subject of more than max characters comes back cut at
\* the last space among its first max characters, or, when there is no such
\* space or it is at an index below 3, at max characters, in both cases
\* without the whitespace at its end; the result has at most max characters;
\* a subject of at most max characters comes back unchanged.
C15_SubjectTruncation ==
    (fn = "trimSubject" /\ args.max > 0)
        => IF Len(args.s) <= args.max
           THEN result = args.s
           ELSE /\ result = WithoutTrailingSpaces(SubSeq(args.s, 1, CutIndex(args.s, args.max)))
                /\ Len(result) <= args.max

\* C15 witness: a subject cut at a space at index 3 or above although it has
\* a later space beyond max, and with a Cyrillic letter before the cut.
C15_Witness ==
    /\ fn = "trimSubject"
    /\ args.max > 0
    /\ Len(args.s) > args.max
    /\ SpaceIndexes(args.s, args.max) # {}
    /\ CutIndex(args.s, args.max) \in 3..(args.max - 1)
    /\ \E k \in 1..Len(result) : result[k] = "~zh"
    /\ Len(result) < CutIndex(args.s, args.max)

\* the first line of a message
FirstLine(msg) ==
    IF \E k \in 1..Len(msg) : msg[k] = NL
    THEN SubSeq(msg, 1, (CHOOSE k \in 1..Len(msg) :
                            msg[k] = NL /\ \A j \in 1..(k - 1) : msg[j] # NL) - 1)
    ELSE msg

\* s from its n-th character on
From(s, n) == SubSeq(s, n, Len(s))

\* the position of the first c in s, 0 when there is none
FirstAt(s, c) ==
    IF \E k \in 1..Len(s) : s[k] = c
    THEN CHOOSE k \in 1..Len(s) : s[k] = c /\ \A j \in 1..(k - 1) : s[j] # c
    ELSE 0

\* the line without a leading gitmoji code ":name: "
WithoutEmoji(line) ==
    IF line # << >> /\ line[1] = ":" /\ FirstAt(Tail(line), ":") > 0
    THEN From(line, FirstAt(Tail(line), ":") + 3)
    ELSE line

\* the length of the run of small letters s starts with
TypeLength(s) ==
    CHOOSE n \in 0..Len(s) :
        /\ \A k \in 1..n : IsLower(s[k])
        /\ n = Len(s) \/ ~IsLower(s[n + 1])

\* the prefix "type(scope)!: " of a line, parsed: <<type, scope, breaking>>,
\* or <<"no prefix">> when the line does not start with one
ParsePrefix(line) ==
    LET rest == WithoutEmoji(line)
        n == TypeLength(rest)
        afterType == From(rest, n + 1)
        scoped == afterType # << >> /\ afterType[1] = "(" /\ FirstAt(afterType, ")") > 0
        scope == IF scoped THEN SubSeq(afterType, 2, FirstAt(afterType, ")") - 1) ELSE << >>
        afterScope == IF scoped THEN From(afterType, FirstAt(afterType, ")") + 1) ELSE afterType
        breaking == afterScope # << >> /\ afterScope[1] = "!"
        afterMark == IF breaking THEN Tail(afterScope) ELSE afterScope
    IN IF n > 0 /\ Len(afterMark) >= 2 /\ afterMark[1] = ":" /\ afterMark[2] = " "
       THEN <<SubSeq(rest, 1, n), scope, breaking>>
       ELSE <<"no prefix">>

\* the prefix of the first line parses to the triple formatMessage was given
PrefixRoundTrip ==
    ParsePrefix(FirstLine(result)) = <<args.commitType, args.scope, args.breaking>>

-----------------------------------------------------------------------------
(* Claims about detectBreaking, detectScope and detectType *)

\* a diff metadata line: +++, ---, @@, "diff " or "index "
MetadataLine(line) ==
    \E p \in {<<"+", "+", "+">>, <<"-", "-", "-">>, <<"@", "@">>, <<"d", "i", "f", "f", " ">>, <<"i", "n", "d", "e", "x", " ">>} : HasPrefix(line, p)

\* the added or removed lines of a diff that are no metadata lines
QualifyingLines(diff, markers) ==
    LET lines == Split(diff, NL) IN
    {lines[n] : n \in {m \in 1..Len(lines) :
                          /\ lines[m] # << >>
                          /\ lines[m][1] \in markers
                          /\ ~MetadataLine(lines[m])}}

\* the exported symbol a line declares, "" when it declares none
SymbolOf(line) ==
    LET content == TrimSpace(Tail(line)) IN
    IF goExported(content) # << >> THEN goExported(content)
    ELSE IF jsExported(content) # << >> THEN jsExported(content)
    ELSE rustExported(content)

\* the exported symbols on the removed lines of a diff
RemovedSymbols(diff) ==
    IF diff = << >> THEN {}
    ELSE {SymbolOf(line) : line \in QualifyingLines(diff, {"-"})} \ {<< >>}

\* an added or removed line of the diff holds one of the two keywords
BreakingKeyword(diff) ==
    /\ diff # << >>
    /\ \E line \in QualifyingLines(diff, {"+", "-"}) :
         \E kw \in {<<"b", "r", "e", "a", "k", "i", "n", "g", " ", "c", "h", "a", "n", "g", "e">>, <<"b", "r", "e", "a", "k", "i", "n", "g", "-", "c", "h", "a", "n", "g", "e">>} : Contains(ToLower(line), kw)

\* names is the set S in lexicographic order
InLexOrder(names, S) ==
    /\ Len(names) = Cardinality(S)
    /\ {names[k] : k \in 1..Len(names)} = S
    /\ \A k \in 1..(Len(names) - 1) : StrLess(names[k], names[k + 1])

\* C16: detectBreaking returns (true, "") when the override is set; else
\* (true, "") when an added or removed line that is no metadata line holds
\* "breaking change" or "breaking-change"; else, when removed lines declare
\* exported symbols, (true, "removed exported symbols: " and the names, each
\* once, in lexicographic order, joined by ", "); else (false, "").
C16_BreakingDetection ==
    fn = "detectBreaking"
        => IF args.opts.Breaking \/ BreakingKeyword(args.diff)
           THEN result = [breaking |-> TRUE, note |-> << >>]
           ELSE IF RemovedSymbols(args.diff) # {}
           THEN /\ result.breaking
                /\ \E names \in Perms(RemovedSymbols(args.diff)) :
                     /\ InLexOrder(names, RemovedSymbols(args.diff))
                     /\ result.note = <<"r", "e", "m", "o", "v", "e", "d", " ", "e", "x", "p", "o", "r", "t", "e", "d", " ", "s", "y", "m", "b", "o", "l", "s", ":", " ">> \o Join(names, <<",", " ">>)
           ELSE result = [breaking |-> FALSE, note |-> << >>]

\* C16 witness: no override and no keyword, two exported symbols removed in
\* another order than the lexicographic one.
C16_Witness ==
    /\ fn = "detectBreaking"
    /\ ~args.opts.Breaking
    /\ args.diff = <<"-", "f", "u", "n", "c", " ", "O", "l", "d", "A", "P", "I", "(", ")", " ", "{", "}", NL, "-", "t", "y", "p", "e", " ", "A", "l", "p", "h", "a", " ", "s", "t", "r", "u", "c", "t", " ", "{">>
    /\ result.note = <<"r", "e", "m", "o", "v", "e", "d", " ", "e", "x", "p", "o", "r", "t", "e", "d", " ", "s", "y", "m", "b", "o", "l", "s", ":", " ", "A", "l", "p", "h", "a", ",", " ", "O", "l", "d", "A", "P", "I">>

\* the path has a directory component
HasDirectory(path) == \E k \in 1..Len(path) : path[k] = "/"

\* the first segment of a path that has a directory component
FirstSegment(path) ==
    SubSeq(path, 1, (CHOOSE k \in 1..Len(path) :
                        path[k] = "/" /\ \A j \in 1..(k - 1) : path[j] # "/") - 1)

\* C17: for two or more records and no override, the scope is the sanitized
\* first path segment when every path has a directory component and all
\* first segments are equal, and empty when some path has no directory
\* component or two first segments differ.
C17_ScopeInference ==
    (fn = "detectScope" /\ Len(args.changes) >= 2 /\ TrimSpace(args.override) = << >>)
        => LET paths == {args.changes[k].Path : k \in 1..Len(args.changes)} IN
           IF /\ \A p \in paths : HasDirectory(p)
              /\ \A p, q \in paths : FirstSegment(p) = FirstSegment(q)
           THEN result = sanitizeScope(FirstSegment(args.changes[1].Path))
           ELSE result = << >>

\* C17 witness: pkg/a/x.go and pkg/b/y.go, in this order and a third record
\* in pkg, give "pkg".
C17_Witness ==
    /\ fn = "detectScope"
    /\ args.override = << >>
    /\ Len(args.changes) = 3
    /\ args.changes[1].Path = <<"p", "k", "g", "/", "a", "/", "x", ".", "g", "o">>
    /\ args.changes[2].Path = <<"p", "k", "g", "/", "b", "/", "y", ".", "g", "o">>
    /\ result = <<"p", "k", "g">>

\* the number of records of a category
RecordsOf(changes, cat) ==
    Cardinality({k \in 1..Len(changes) : categorizePath(changes[k].Path) = cat})

\* the categories that are not code, in their fixed order
NonCodeOrder == <<catDocs, catTest, catCI, catBuild, catChore>>

\* no type override and no record of the category code
OnlyNonCode ==
    /\ fn = "detectType"
    /\ args.opts.Type = << >>
    /\ RecordsOf(args.changes, catCode) = 0

\* C19: with no type override and no code record, the type is the first of
\* docs, test, ci, build, chore that has a record, whatever the counts of the
\* later ones are, and chore when none has a record.
C19_FirstNonCodeCategoryWins ==
    OnlyNonCode
        => LET present == {k \in 1..Len(NonCodeOrder) :
                              RecordsOf(args.changes, NonCodeOrder[k]) > 0}
           IN IF present = {} THEN result.type = <<"c", "h", "o", "r", "e">>
              ELSE result.type = NonCodeOrder[CHOOSE k \in present : \A j \in present : k <= j]


\* a record's path, lower-cased, or an added or removed line of the diff,
\* lower-cased, holds one of the words
Signal(pathWords, diffWords) ==
    \/ \E k \in 1..Len(args.changes) :
          \E w \in pathWords : Contains(ToLower(args.changes[k].Path), w)
    \/ /\ args.diff # << >>
       /\ \E line \in QualifyingLines(args.diff, {"+", "-"}) :
             \E w \in diffWords : Contains(ToLower(line), w)

\* some code record is added, untracked or copied, or the diff adds an
\* exported symbol
NewCode ==
    \/ \E k \in 1..Len(args.changes) :
          /\ categorizePath(args.changes[k].Path) = catCode
          /\ args.changes[k].Status \in {<<"A">>, <<"U">>, <<"C">>}
    \/ /\ args.diff # << >>
       /\ \E line \in QualifyingLines(args.diff, {"+"}) : SymbolOf(line) # << >>

-----------------------------------------------------------------------------
(* Claims about the LLM block of run *)

\* the message run composed before the LLM block
HeuristicMessage ==
    formatMessage(locals.commitType, locals.scope, locals.subject, locals.body,
                  options, locals.breaking)

\* the contents generateWithLLM may return
LLMContents == {res.content : res \in {r \in LLMResults : ~r.failed}}

\* C18: when generateWithLLM was called and failed, run without llm-strict
\* has written the heuristic message and returns nil, and run with llm-strict
\* returns the error and has written nothing; the message written is the
\* LLM's only when the call succeeded, with a content that is not empty.
C18_LLMFallback ==
    (pc = "returned" /\ "selectChanges" \in calls /\ Len(locals.changes) > 0)
        => IF "generateWithLLM" \in calls /\ locals.llmFailed
           THEN IF options.LLMStrict
                THEN stdout = << >> /\ err = Error("llm", "")
                ELSE stdout = <<HeuristicMessage>> /\ err = Nil /\ ~locals.llmUsed
           ELSE IF "generateWithLLM" \in calls
           THEN /\ options.LLMEnabled
                /\ \E content \in LLMContents : content # << >> /\ stdout = <<content>>
                /\ locals.llmUsed
                /\ err = Nil
           ELSE ~options.LLMEnabled /\ stdout = <<HeuristicMessage>> /\ err = Nil

\* C18 witness: the LLM failed, llm-strict is off, and run has written the
\* heuristic message and returned nil.
C18_Witness ==
    /\ pc = "returned"
    /\ "generateWithLLM" \in calls
    /\ locals.llmFailed
    /\ ~options.LLMStrict
    /\ stdout = <<HeuristicMessage>>
    /\ HeuristicMessage \notin LLMContents
    /\ err = Nil

-----------------------------------------------------------------------------
(* Claim about the refactor signal of detectType *)

\* the three refactor keywords
RefactorWords == {<<"r", "e", "f", "a", "c", "t", "o", "r">>, <<"c", "l", "e", "a", "n", "u", "p">>, <<"r", "e", "s", "t", "r", "u", "c", "t", "u", "r", "e">>}

\* C21: with no type override, at least one code record and no performance
\* signal, the type is refactor whenever a record's path or an added or
\* removed line of the diff that is no metadata line holds, in any case, one
\* of refactor, cleanup, restructure.
C21_RefactorSignal ==
    (/\ fn = "detectType"
     /\ args.opts.Type = << >>
     /\ RecordsOf(args.changes, catCode) > 0
     /\ ~Signal({<<"p", "e", "r", "f">>, <<"o", "p", "t", "i", "m", "i", "z">>}, {<<"p", "e", "r", "f">>, <<"o", "p", "t", "i", "m", "i", "z">>, <<"s", "p", "e", "e", "d">>})
     /\ Signal(RefactorWords, RefactorWords))
        => result.type = <<"r", "e", "f", "a", "c", "t", "o", "r">>
-----------------------------------------------------------------------------
(* Claim about the target of the subject *)

\* the primary areas of the records that are strictly more frequent than
\* every other primary area
MajorityAreas(changes) ==
    {a \in AreaKeys(changes) :
        \A b \in AreaKeys(changes) \ {a} : AreaCount(changes, a) > AreaCount(changes, b)}

\* C22: for a single record the target is the primary area of its path; for
\* two or more records and no -scope, the target is the primary area that is
\* strictly more frequent than every other one, also when detectScope found a
\* common scope, and when there is none no target is inferred and the subject
\* is the verb and the default target of the type.
C22_TargetByMajority ==
    fn = "buildSubject"
        => IF Len(args.changes) = 1
           THEN result.target = primaryArea(args.changes[1].Path)
           ELSE args.opts.Scope = << >>
                  => IF MajorityAreas(args.changes) # {}
                     THEN result.target \in MajorityAreas(args.changes)
                     ELSE /\ result.target = << >>
                          /\ \E vt \in {verbForType(result.commitType, args.opts.Lang)} :
                               result.subject = vt[1] \o <<" ">> \o vt[2]
-----------------------------------------------------------------------------
(* Claim about the test paths of categorizePath *)

\* the segments of a path, lower-cased
Segments(path) == Split(ToLower(path), "/")

\* the last segment of a path, lower-cased
LastSegment(path) == Segments(path)[Len(Segments(path))]

\* the path has a documentation marker: a README, CHANGELOG, LICENSE or
\* CONTRIBUTING name, the docs/ prefix, or the extension .md, .rst or .adoc
DocMarker(path) ==
    \/ ToLower(path) = <<"r", "e", "a", "d", "m", "e">>
    \/ \E p \in {<<"r", "e", "a", "d", "m", "e", ".">>, <<"c", "h", "a", "n", "g", "e", "l", "o", "g">>, <<"l", "i", "c", "e", "n", "s", "e">>, <<"c", "o", "n", "t", "r", "i", "b", "u", "t", "i", "n", "g">>, <<"d", "o", "c", "s", "/">>} :
          HasPrefix(ToLower(path), p)
    \/ \E e \in {<<".", "m", "d">>, <<".", "r", "s", "t">>, <<".", "a", "d", "o", "c">>} : HasSuffix(LastSegment(path), e)

\* the path has a test marker: a segment named test or tests at any depth,
\* or a base name that ends in _test.go or contains .spec. or .test.
TestMarker(path) ==
    \/ \E k \in 1..Len(Segments(path)) : Segments(path)[k] \in {<<"t", "e", "s", "t">>, <<"t", "e", "s", "t", "s">>}
    \/ HasSuffix(LastSegment(path), <<"_", "t", "e", "s", "t", ".", "g", "o">>)
    \/ Contains(LastSegment(path), <<".", "s", "p", "e", "c", ".">>)
    \/ Contains(LastSegment(path), <<".", "t", "e", "s", "t", ".">>)

\* C23: a path with a documentation marker is docs, and a path without one
\* that has a test marker, a segment named test or tests at any depth, the
\* first included, or a test base name, is test, whatever ci, build or chore
\* markers it has.
C23_TestPaths ==
    fn = "categorizePath"
        => IF DocMarker(args.path) THEN result = catDocs
           ELSE TestMarker(args.path) => result = catTest
-----------------------------------------------------------------------------
(* Claim about the origin of the records *)

\* the records are as parseNameStatus and parseUntracked created them: the
\* staged ones with the origin ModeStaged, the unstaged ones with ModeUnstaged
AsParsed ==
    /\ \A k \in 1..Len(locals.staged) : locals.staged[k].Source = ModeStaged
    /\ \A k \in 1..Len(locals.unstaged) : locals.unstaged[k].Source = ModeUnstaged

\* outside of a merge selectChanges returns one of the two sequences as it is
UntouchedOutsideMerge ==
    (Selected /\ options.Mode # ModeAll)
        => /\ AsParsed
           /\ locals.changes = (IF locals.modeUsed = ModeStaged THEN locals.staged
                                ELSE locals.unstaged)

\* a record of the merge is a staged or an unstaged record, the origin aside
OnlyOriginRewritten(c) ==
    \E r \in {locals.staged[k] : k \in 1..Len(locals.staged)}
            \cup {locals.unstaged[k] : k \in 1..Len(locals.unstaged)} :
        [r EXCEPT !.Source = c.Source] = c

\* C24 (as claimed): after a merge every returned record has the origin
\* ModeAll, whether its path is staged only, unstaged only or both; outside of
\* a merge no record is changed after parsing.
C24_EveryMergedOriginRewritten ==
    /\ Merged => \A k \in 1..Len(locals.changes) : locals.changes[k].Source = ModeAll
    /\ UntouchedOutsideMerge

\* C24 (amended): after a merge a returned record has the origin ModeAll when
\* its path occurs in the unstaged sequence and keeps the origin ModeStaged
\* when its path occurs in the staged sequence only; its path, old path and
\* status are those of a staged or unstaged record; outside of a merge no
\* record is changed after parsing.
C24_UnstagedPathsOriginRewritten ==
    /\ Merged
         => /\ AsParsed
            /\ \A k \in 1..Len(locals.changes) :
                 /\ locals.changes[k].Source
                      = (IF locals.changes[k].Path \in PathsOf(locals.unstaged)
                         THEN ModeAll ELSE ModeStaged)
                 /\ OnlyOriginRewritten(locals.changes[k])
    /\ UntouchedOutsideMerge

\* C24 witness: a merge that returns a record of a path that is staged only,
\* one of a path that is unstaged only and one of a path that is both.
C24_Witness ==
    /\ Merged
    /\ \E k \in 1..Len(locals.changes) :
         /\ locals.changes[k].Path \notin PathsOf(locals.unstaged)
         /\ locals.changes[k].Source = ModeStaged
    /\ \E k \in 1..Len(locals.changes) :
         /\ locals.changes[k].Path \notin PathsOf(locals.staged)
         /\ locals.changes[k].Source = ModeAll
    /\ \E k \in 1..Len(locals.changes) :
         /\ locals.changes[k].Path \in PathsOf(locals.staged) \cap PathsOf(locals.unstaged)
         /\ locals.changes[k].Source = ModeAll
====
